---- MODULE Spec2Model ----
(***************************************************************************)
(* A model of the lsys package: the string expander (Lsys.expand), the     *)
(* turtle interpreter (Lsys.compute_coords) and the lazily cached derived  *)
(* properties of an Lsys object (string, vocab, commands, coords, depths,  *)
(* x, y) with the setters that invalidate them.                            *)
(*                                                                         *)
(* A Python string is a sequence of one-character strings, None is the     *)
(* empty tuple and a value v held in an attribute that may be None is the  *)
(* one-element tuple <<v>>.                                                *)
(***************************************************************************)
EXTENDS Integers, Sequences, FiniteSets, TLC

(***************************************************************************)
(* Bounds of the model.                                                    *)
(***************************************************************************)
\* longest axiom handed to expand
MaxAxiomLen == 2
\* largest depth handed to expand
MaxDepth == 3
\* the memory ceiling, scaled down from the 5e6 characters of the source so
\* that expansions of a few characters cross it
MaxSizeScaled == 4
\* largest depth assigned to an Lsys object
MaxObjectDepth == 2
\* most assignments and reads made on one Lsys object
MaxCalls == 4
\* longest string handed to the interpreter
MaxStrLen == 3
\* the largest number written in an interpreted string, so that ds ** num
\* (line 549) stays within 32-bit integers
MaxNumber == 11

(***************************************************************************)
(* Strings.                                                                *)
(***************************************************************************)
None == << >>

\* the element of a set of one element
The(S) == CHOOSE v \in S : TRUE

Some(v) == << v >>

DigitChars == << "0", "1", "2", "3", "4", "5", "6", "7", "8", "9" >>

\* str.isdigit on one character
IsDigit(c) == \E d \in 1..10 : DigitChars[d] = c

\* int(c) of a digit character
DigitVal(c) == (CHOOSE d \in 1..10 : DigitChars[d] = c) - 1

\* str(n) of a non-negative integer: its decimal representation
RECURSIVE Str(_)
Str(n) == IF n < 10 THEN << DigitChars[n + 1] >>
          ELSE Str(n \div 10) \o << DigitChars[(n % 10) + 1] >>

\* the concatenation of a sequence of strings
RECURSIVE Flatten(_)
Flatten(chunks) == IF chunks = << >> THEN << >>
                   ELSE Head(chunks) \o Flatten(Tail(chunks))

\* s.replace(old, new) for a one-character old: every occurrence of old,
\* left to right, gives way to new; the text of new is not scanned again
Replace(s, old, new) ==
    Flatten([k \in 1..Len(s) |-> IF s[k] = old THEN new ELSE << s[k] >>])

\* the characters of a string, as a set
Chars(s) == { s[k] : k \in 1..Len(s) }

\* all strings over an alphabet up to a length
StringsUpTo(alphabet, n) == UNION { [1..k -> alphabet] : k \in 0..n }

LowerCase == << "a", "b", "c", "d", "e", "f", "g", "h", "i", "j", "k", "l", "m",
                "n", "o", "p", "q", "r", "s", "t", "u", "v", "w", "x", "y", "z" >>

UpperCase == << "A", "B", "C", "D", "E", "F", "G", "H", "I", "J", "K", "L", "M",
                "N", "O", "P", "Q", "R", "S", "T", "U", "V", "W", "X", "Y", "Z" >>

\* str.upper
UpperChar(c) == IF \E k \in 1..26 : LowerCase[k] = c
                THEN UpperCase[CHOOSE k \in 1..26 : LowerCase[k] = c]
                ELSE c

Upper(s) == [k \in 1..Len(s) |-> UpperChar(s[k])]

\* str.strip: the blanks at both ends are dropped
RECURSIVE LStrip(_)
LStrip(s) == IF s # << >> /\ Head(s) = " " THEN LStrip(Tail(s)) ELSE s

RECURSIVE RStrip(_)
RStrip(s) == IF s # << >> /\ s[Len(s)] = " "
             THEN RStrip(SubSeq(s, 1, Len(s) - 1)) ELSE s

Strip(s) == RStrip(LStrip(s))

\* sub occurs in s
Contains(s, sub) ==
    \E k \in 1..(Len(s) - Len(sub) + 1) : SubSeq(s, k, k + Len(sub) - 1) = sub

\* s.replace(old, new) for a non-empty old of any length, from position k on:
\* the occurrences are taken left to right and do not overlap
RECURSIVE ReplaceFrom(_, _, _, _)
ReplaceFrom(s, k, old, new) ==
    IF k > Len(s) THEN << >>
    ELSE IF /\ k + Len(old) - 1 <= Len(s)
            /\ SubSeq(s, k, k + Len(old) - 1) = old
    THEN new \o ReplaceFrom(s, k + Len(old), old, new)
    ELSE << s[k] >> \o ReplaceFrom(s, k + 1, old, new)

ReplaceAll(s, old, new) == ReplaceFrom(s, 1, old, new)

\* s.split(sep) for a one-character sep
RECURSIVE Split(_, _)
Split(s, sep) ==
    IF sep \notin Chars(s) THEN << s >>
    ELSE << SubSeq(s, 1, (CHOOSE k \in 1..Len(s) :
                            s[k] = sep /\ \A j \in 1..(k - 1) : s[j] # sep) - 1) >>
            \o Split(SubSeq(s, (CHOOSE k \in 1..Len(s) :
                                  s[k] = sep /\ \A j \in 1..(k - 1) : s[j] # sep) + 1,
                            Len(s)),
                     sep)

(***************************************************************************)
(* Lsys.expand                                                             *)
(***************************************************************************)
MAX_STRING_SIZE == MaxSizeScaled

\* a pass that scans only up to the first character that has a rule
RewritePassFirstOnly(axiom, rule) ==
    Flatten([k \in 1..Len(axiom) |->
                IF /\ << axiom[k] >> \in DOMAIN rule
                   /\ \A j \in 1..(k - 1) : << axiom[j] >> \notin DOMAIN rule
                THEN rule[<< axiom[k] >>]
                ELSE << axiom[k] >>])

\* the inner for loop of expand: one rewriting pass over the working string.
\* A rule set is a function from keys (strings) to replacement strings, and
\* `c in rule` asks whether the one-character string c is a key
RewritePass(axiom, rule) ==
    Flatten([k \in 1..Len(axiom) |->
                IF << axiom[k] >> \in DOMAIN rule THEN rule[<< axiom[k] >>]
                ELSE << axiom[k] >>])

\* `output` of iteration i: the axiom itself at i = 0, a rewriting pass after
PassOutput(i, axiom, rule) ==
    IF i = 0 THEN axiom ELSE RewritePass(axiom, rule)

\* output.replace(bar, str(i) + "."): the working string of the next iteration
TagBars(output, bar, i) == Replace(output, bar, Str(i) \o << "." >>)

\* the guard of the MemoryError
OverCeiling(axiom, memory_check) ==
    memory_check /\ Len(axiom) > MAX_STRING_SIZE

\* axiom.replace(".", bar): the value expand returns
Untag(axiom, bar) == Replace(axiom, ".", << bar >>)

\* the whole call: raised with the depth of the message, or the string
RECURSIVE ExpandLoop(_, _, _, _, _, _)
ExpandLoop(axiom, rule, depth, bar, memory_check, i) ==
    IF i > depth
    THEN [raised |-> FALSE, depth |-> i, string |-> Untag(axiom, bar)]
    ELSE IF OverCeiling(axiom, memory_check)
    THEN [raised |-> TRUE, depth |-> i, string |-> << >>]
    ELSE CHOOSE r \in { ExpandLoop(next, rule, depth, bar, memory_check, i + 1) :
                         next \in { TagBars(PassOutput(i, axiom, rule), bar, i) } } :
             TRUE

expand(axiom, rule, depth, bar, memory_check) ==
    ExpandLoop(axiom, rule, depth, bar, memory_check, 0)

(***************************************************************************)
(* Lsys.clean_rule                                                         *)
(*                                                                         *)
(* A value given as a rule is [type, items]: a dict with its items in      *)
(* insertion order as << key, value >> pairs, or a value of another type.  *)
(***************************************************************************)
\* a rule argument: its type, the items of a dict, the text of a string
DictRule(items) == [type |-> "dict", items |-> items, text |-> << >>]

StrRule(text) == [type |-> "str", items |-> << >>, text |-> text]

ListRule == [type |-> "list", items |-> << >>, text |-> << >>]

\* only the keys are cleaned, the values are entered as given
RECURSIVE CleanItemsKeysOnly(_, _)
CleanItemsKeysOnly(items, clean) ==
    IF items = << >> THEN clean
    ELSE LET k == Upper(Strip(Head(items)[1]))
             v == Head(items)[2]
         IN CleanItemsKeysOnly(Tail(items),
                               [key \in DOMAIN clean \union { k } |->
                                    IF key = k THEN v ELSE clean[key]])

\* lines 392-394: the items are entered one by one, a later one with the
\* same cleaned key replacing the earlier one
RECURSIVE CleanItems(_, _)
CleanItems(items, clean) ==
    IF items = << >> THEN clean
    ELSE LET k == Upper(Strip(Head(items)[1]))
             v == Upper(Strip(Head(items)[2]))
         IN CleanItems(Tail(items),
                       [key \in DOMAIN clean \union { k } |->
                            IF key = k THEN v ELSE clean[key]])

\* line 401
Seps == << << ":" >>, << "=" >>, << "-", "-", ">" >>, << "-", ">" >>,
           << "=", ">" >> >>

\* line 402
Divs == << << ";" >>, << "," >> >>

\* lines 406-408 and 413-415: each of the marks that occurs in the text gives
\* way to `to`, the marks taken in the order of the list from the j-th on
RECURSIVE ReplaceEach(_, _, _, _)
ReplaceEach(rule, marks, j, to) ==
    IF j > Len(marks) THEN rule
    ELSE ReplaceEach(IF Contains(rule, marks[j])
                     THEN ReplaceAll(rule, marks[j], to) ELSE rule,
                     marks, j + 1, to)

\* an item missing its "=" is left out instead of failing the call
RECURSIVE CleanPairsLenient(_, _)
CleanPairsLenient(rules_tmp, clean) ==
    IF rules_tmp = << >> THEN [raised |-> FALSE, error |-> "", rule |-> clean]
    ELSE IF Len(Split(Head(rules_tmp), "=")) # 2
    THEN CleanPairsLenient(Tail(rules_tmp), clean)
    ELSE CleanPairsLenient(
             Tail(rules_tmp),
             [key \in DOMAIN clean \union { Strip(Split(Head(rules_tmp), "=")[1]) } |->
                  IF key = Strip(Split(Head(rules_tmp), "=")[1])
                  THEN Strip(Split(Head(rules_tmp), "=")[2])
                  ELSE clean[key]])

\* lines 419-421: k, v = r.split("=") raises ValueError unless the split
\* gives two parts
RECURSIVE CleanPairs(_, _)
CleanPairs(rules_tmp, clean) ==
    IF rules_tmp = << >> THEN [raised |-> FALSE, error |-> "", rule |-> clean]
    ELSE IF Len(Split(Head(rules_tmp), "=")) # 2
    THEN [raised |-> TRUE, error |-> "ValueError", rule |-> << >>]
    ELSE CleanPairs(
             Tail(rules_tmp),
             [key \in DOMAIN clean \union { Strip(Split(Head(rules_tmp), "=")[1]) } |->
                  IF key = Strip(Split(Head(rules_tmp), "=")[1])
                  THEN Strip(Split(Head(rules_tmp), "=")[2])
                  ELSE clean[key]])

\* line 399: rule.upper().replace(" ", "")
Squeezed(text) == Replace(Upper(text), " ", << >>)

\* lines 398-423, for a text already squeezed
CleanString(rule) ==
    IF \E j \in 1..Len(Seps) : Contains(rule, Seps[j])
    THEN CleanPairs(Split(ReplaceEach(ReplaceEach(rule, Seps, 1, << "=" >>),
                                      Divs, 1, << "," >>),
                          ","),
                    << >>)
    ELSE [raised |-> TRUE, error |-> "ValueError", rule |-> << >>]

\* lines 391-426: a ValueError, or the mapping returned
clean_rule(rule) ==
    IF rule.type = "dict"
    THEN [raised |-> FALSE, error |-> "", rule |-> CleanItems(rule.items, << >>)]
    ELSE IF rule.type = "str"
    THEN CleanString(Squeezed(rule.text))
    ELSE [raised |-> TRUE, error |-> "ValueError", rule |-> << >>]

(***************************************************************************)
(* Lsys.compute_coords                                                     *)
(*                                                                         *)
(* The interpreter is modelled for unoise = 0, where algo.add_noise        *)
(* returns 0, with headings in whole degrees that are multiples of 90 and  *)
(* integer step lengths, so that positions are integers.                   *)
(***************************************************************************)
\* numpy.cos and numpy.sin of a heading given in degrees
CosDeg(d) == CASE d % 360 = 0 -> 1
               [] d % 360 = 90 -> 0
               [] d % 360 = 180 -> -1
               [] d % 360 = 270 -> 0

SinDeg(d) == CASE d % 360 = 0 -> 0
               [] d % 360 = 90 -> 1
               [] d % 360 = 180 -> 0
               [] d % 360 = 270 -> -1

\* b ** n
RECURSIVE Pow(_, _)
Pow(b, n) == IF n = 0 THEN 1
             ELSE IF n % 2 = 0 THEN Pow(b * b, n \div 2)
             ELSE b * Pow(b * b, n \div 2)

\* a coordinate within tol = 1e-9 of zero is written as 0
Snap(v) == IF v > 0 \/ v < 0 THEN v ELSE 0

\* ([nan, nan], [nan, nan])
PenLift == [nan |-> TRUE, p |-> << 0, 0 >>, q |-> << 0, 0 >>]

\* ([ax, ay], [bx, by])
Segment(ax, ay, bx, by) == [nan |-> FALSE, p |-> << ax, ay >>, q |-> << bx, by >>]

\* lines 511-537: the locals before the first character
InterpStart(cfg) ==
    [x |-> 0, y |-> 0, sx |-> 0, sy |-> 0, a |-> cfg.a0,
     x_y |-> << >>, stack |-> << >>, depths |-> << >>,
     num |-> 0, pres_depth |-> cfg.depth, found |-> FALSE,
     ignore |-> cfg.ignore, warnings |-> << >>, raised |-> FALSE]

\* a move that emits nothing for a goto character
MoveGotoSilent(st, c, cfg) ==
    LET pres_depth == IF << c >> = cfg.bar THEN st.num ELSE cfg.depth
        s == cfg.step * Pow(cfg.ds, pres_depth)
        sy == st.y + SinDeg(st.a) * s
        sx == st.x + CosDeg(st.a) * s
        moved == [st EXCEPT !.pres_depth = pres_depth, !.sx = sx, !.sy = sy,
                            !.x = sx, !.y = sy, !.found = TRUE]
    IN IF << c >> = cfg.goto THEN moved
       ELSE [moved EXCEPT
                !.x_y = Append(st.x_y, Segment(Snap(st.x), Snap(st.y),
                                               Snap(sx), Snap(sy))),
                !.depths = Append(st.depths, pres_depth)]

\* a move that lifts the pen for a goto symbol and leaves the turtle in place
MoveGotoStays(st, c, cfg) ==
    LET pres_depth == IF << c >> = cfg.bar THEN st.num ELSE cfg.depth
        s == cfg.step * Pow(cfg.ds, pres_depth)
        sy == st.y + SinDeg(st.a) * s
        sx == st.x + CosDeg(st.a) * s
    IN IF << c >> = cfg.goto
       THEN [st EXCEPT !.pres_depth = pres_depth,
                       !.x_y = Append(st.x_y, PenLift),
                       !.depths = Append(st.depths, pres_depth),
                       !.found = TRUE]
       ELSE [st EXCEPT !.pres_depth = pres_depth, !.sx = sx, !.sy = sy,
                       !.x_y = Append(st.x_y,
                                      Segment(Snap(st.x), Snap(st.y),
                                              Snap(sx), Snap(sy))),
                       !.depths = Append(st.depths, pres_depth),
                       !.x = sx, !.y = sy, !.found = TRUE]

\* a move that takes the global depth for a barrier symbol too
MoveGlobalDepth(st, c, cfg) ==
    LET pres_depth == cfg.depth
        s == cfg.step * Pow(cfg.ds, pres_depth)
        sy == st.y + SinDeg(st.a) * s
        sx == st.x + CosDeg(st.a) * s
        seg == IF << c >> = cfg.goto THEN PenLift
               ELSE Segment(Snap(st.x), Snap(st.y), Snap(sx), Snap(sy))
    IN [st EXCEPT !.pres_depth = pres_depth, !.sx = sx, !.sy = sy,
                  !.x_y = Append(st.x_y, seg),
                  !.depths = Append(st.depths, pres_depth),
                  !.x = sx, !.y = sy, !.found = TRUE]

\* a move whose segment starts at the origin instead of the position
MoveFromOrigin(st, c, cfg) ==
    LET pres_depth == IF << c >> = cfg.bar THEN st.num ELSE cfg.depth
        s == cfg.step * Pow(cfg.ds, pres_depth)
        sy == st.y + SinDeg(st.a) * s
        sx == st.x + CosDeg(st.a) * s
        seg == IF << c >> = cfg.goto THEN PenLift
               ELSE Segment(0, 0, Snap(sx), Snap(sy))
    IN [st EXCEPT !.pres_depth = pres_depth, !.sx = sx, !.sy = sy,
                  !.x_y = Append(st.x_y, seg),
                  !.depths = Append(st.depths, pres_depth),
                  !.x = sx, !.y = sy, !.found = TRUE]

\* lines 543-570: a forward, barrier or goto character
Move(st, c, cfg) ==
    LET pres_depth == IF << c >> = cfg.bar THEN st.num ELSE cfg.depth
        s == cfg.step * Pow(cfg.ds, pres_depth)
        sy == st.y + SinDeg(st.a) * s
        sx == st.x + CosDeg(st.a) * s
        seg == IF << c >> = cfg.goto THEN PenLift
               ELSE Segment(Snap(st.x), Snap(st.y), Snap(sx), Snap(sy))
    IN [st EXCEPT !.pres_depth = pres_depth, !.sx = sx, !.sy = sy,
                  !.x_y = Append(st.x_y, seg),
                  !.depths = Append(st.depths, pres_depth),
                  !.x = sx, !.y = sy, !.found = TRUE]

\* a chain whose "]" on an empty stack is skipped instead of raising
ChainLenientPop(st, c, cfg) ==
    IF c \in Chars(cfg.right \o cfg.left)
    THEN LET num == IF st.num = 0 THEN 1 ELSE st.num
         IN IF << c >> = cfg.right
            THEN [st EXCEPT !.num = num, !.a = st.a - cfg.da * num]
            ELSE [st EXCEPT !.num = num, !.a = st.a + cfg.da * num]
    ELSE IF c = "["
    THEN [st EXCEPT !.stack = Append(st.stack, << st.x, st.y, st.a >>)]
    ELSE IF c = "]"
    THEN IF st.stack = << >>
         THEN st
         ELSE LET top == st.stack[Len(st.stack)]
              IN [st EXCEPT !.x = top[1], !.y = top[2], !.a = top[3],
                            !.stack = SubSeq(st.stack, 1, Len(st.stack) - 1),
                            !.x_y = Append(st.x_y, PenLift),
                            !.depths = Append(st.depths, st.pres_depth)]
    ELSE IF c \in Chars(st.ignore)
    THEN st
    ELSE IF ~st.found
    THEN [st EXCEPT !.ignore = Append(st.ignore, c),
                    !.warnings = Append(st.warnings, c)]
    ELSE st

\* a chain that warns of an unknown character without remembering it
ChainWarnNoIgnore(st, c, cfg) ==
    IF c \in Chars(cfg.right \o cfg.left)
    THEN LET num == IF st.num = 0 THEN 1 ELSE st.num
         IN IF << c >> = cfg.right
            THEN [st EXCEPT !.num = num, !.a = st.a - cfg.da * num]
            ELSE [st EXCEPT !.num = num, !.a = st.a + cfg.da * num]
    ELSE IF c = "["
    THEN [st EXCEPT !.stack = Append(st.stack, << st.x, st.y, st.a >>)]
    ELSE IF c = "]"
    THEN IF st.stack = << >>
         THEN [st EXCEPT !.raised = TRUE]
         ELSE LET top == st.stack[Len(st.stack)]
              IN [st EXCEPT !.x = top[1], !.y = top[2], !.a = top[3],
                            !.stack = SubSeq(st.stack, 1, Len(st.stack) - 1),
                            !.x_y = Append(st.x_y, PenLift),
                            !.depths = Append(st.depths, st.pres_depth)]
    ELSE IF c \in Chars(st.ignore)
    THEN st
    ELSE IF ~st.found
    THEN [st EXCEPT !.warnings = Append(st.warnings, c)]
    ELSE st

\* a chain whose "]" restores the state pushed first, not the one pushed last
ChainPopFirst(st, c, cfg) ==
    IF c \in Chars(cfg.right \o cfg.left)
    THEN LET num == IF st.num = 0 THEN 1 ELSE st.num
         IN IF << c >> = cfg.right
            THEN [st EXCEPT !.num = num, !.a = st.a - cfg.da * num]
            ELSE [st EXCEPT !.num = num, !.a = st.a + cfg.da * num]
    ELSE IF c = "["
    THEN [st EXCEPT !.stack = Append(st.stack, << st.x, st.y, st.a >>)]
    ELSE IF c = "]"
    THEN IF st.stack = << >>
         THEN [st EXCEPT !.raised = TRUE]
         ELSE LET top == st.stack[1]
              IN [st EXCEPT !.x = top[1], !.y = top[2], !.a = top[3],
                            !.stack = Tail(st.stack),
                            !.x_y = Append(st.x_y, PenLift),
                            !.depths = Append(st.depths, st.pres_depth)]
    ELSE IF c \in Chars(st.ignore)
    THEN st
    ELSE IF ~st.found
    THEN [st EXCEPT !.ignore = Append(st.ignore, c),
                    !.warnings = Append(st.warnings, c)]
    ELSE st

\* lines 572-597: the if / elif chain that follows the move commands
Chain(st, c, cfg) ==
    IF c \in Chars(cfg.right \o cfg.left)
    THEN LET num == IF st.num = 0 THEN 1 ELSE st.num
         IN IF << c >> = cfg.right
            THEN [st EXCEPT !.num = num, !.a = st.a - cfg.da * num]
            ELSE [st EXCEPT !.num = num, !.a = st.a + cfg.da * num]
    ELSE IF c = "["
    THEN [st EXCEPT !.stack = Append(st.stack, << st.x, st.y, st.a >>)]
    ELSE IF c = "]"
    THEN IF st.stack = << >>
         THEN [st EXCEPT !.raised = TRUE]
         ELSE LET top == st.stack[Len(st.stack)]
              IN [st EXCEPT !.x = top[1], !.y = top[2], !.a = top[3],
                            !.stack = SubSeq(st.stack, 1, Len(st.stack) - 1),
                            !.x_y = Append(st.x_y, PenLift),
                            !.depths = Append(st.depths, st.pres_depth)]
    ELSE IF c \in Chars(st.ignore)
    THEN st
    ELSE IF ~st.found
    THEN [st EXCEPT !.ignore = Append(st.ignore, c),
                    !.warnings = Append(st.warnings, c)]
    ELSE st

\* a loop body that leaves `found` set once a move command has set it
StepCharFoundKept(st, c, cfg) ==
    IF IsDigit(c)
    THEN [st EXCEPT !.num = st.num * 10 + DigitVal(c)]
    ELSE LET moved == IF c \in Chars(cfg.forward \o cfg.bar \o cfg.goto)
                      THEN Move(st, c, cfg) ELSE st
         IN The({ IF chained.raised THEN chained
                  ELSE [chained EXCEPT !.num = 0] :
                  chained \in { Chain(moved, c, cfg) } })

\* lines 538-600: the body of the for loop, for one character
StepChar(st, c, cfg) ==
    IF IsDigit(c)
    THEN [st EXCEPT !.num = st.num * 10 + DigitVal(c), !.found = FALSE]
    ELSE LET moved == IF c \in Chars(cfg.forward \o cfg.bar \o cfg.goto)
                      THEN Move(st, c, cfg) ELSE st
         IN The({ IF chained.raised THEN chained
                  ELSE [chained EXCEPT !.num = 0, !.found = FALSE] :
                  chained \in { Chain(moved, c, cfg) } })

\* the whole loop over a string, stopping at the first error
RECURSIVE RunFrom(_, _, _, _)
RunFrom(st, string, k, cfg) ==
    IF k > Len(string) \/ st.raised THEN st
    ELSE CHOOSE r \in { RunFrom(next, string, k + 1, cfg) :
                         next \in { StepChar(st, string[k], cfg) } } : TRUE

\* compute_coords on a given string: the locals at the return, or raised
Interpret(string, cfg) == RunFrom(InterpStart(cfg), string, 1, cfg)

(***************************************************************************)
(* State.                                                                  *)
(***************************************************************************)
VARIABLES
    \* one call of expand: its arguments, the local `axiom`, the loop
    \* counter, where the call stands and what it returned
    e_args, e_axiom, e_i, e_pc, e_ret,
    \* for every character of e_axiom (and then of e_ret) the iteration that
    \* wrote it: 0 for the caller's axiom, i for a replacement of iteration i
    e_prov,
    \* one run of compute_coords: the attributes it reads, the string it
    \* scans, the number of characters consumed, its locals, where it stands
    r_cfg, r_string, r_k, r_st, r_pc,
    \* an Lsys object: its settable attributes
    _axiom, _rule, _clean_rule, _depth, _a0, _da, _step, _ds, _unoise,
    _forward, _bar, _left, _right, _goto, _ignore, _memory_check,
    \* its derived attributes and their stale flags
    _vocab, _commands, _coords, _depths, _x, _y, _string,
    _string_stale, _coord_stale,
    \* the outcome of the last access to the object: which attribute, whether
    \* it raised, the value it returned
    ret,
    \* the number of assignments and reads made on the object so far
    calls,
    \* one call of clean_rule: its argument, where the call stands, what it
    \* returned, and what a second call on that result returned
    c_rule, c_pc, c_ret, c_again,
    \* calls of binomial one after the other: the arguments and the local
    \* `tri` of the current one, where it stands, what it returned, and the
    \* number of calls completed before it
    b_n, b_k, b_tri, b_pc, b_ret, b_done,
    \* one call of find_circular_weight: its arguments, the bounds and the
    \* guess of the search, the deviations and the error last evaluated, the
    \* loop counter, the number of evaluations made, where the call stands
    \* and what it returned
    w_angle, w_tol, w_max_iters, w_guess, w_a, w_b, w_error_np, w_error,
    w_i, w_evals, w_pc, w_ret,
    \* one call of bezier: the control points, the number of segments, the
    \* index of the next control point, the curve so far, where it stands
    z_points, z_segs, z_i, z_curve, z_pc,
    \* one call of bezier_xy: the points given, keep_ends, the midpoints, the
    \* index of the loop, last_pt, the curves built, where it stands and
    \* what it returned
    s_xy, s_keep, s_temp, s_i, s_last_pt, s_curves, s_pc, s_ret

expandVars == << e_args, e_axiom, e_i, e_pc, e_ret, e_prov >>

interpVars == << r_cfg, r_string, r_k, r_st, r_pc >>

settableVars == << _axiom, _rule, _clean_rule, _depth, _a0, _da, _step, _ds,
                   _unoise, _forward, _bar, _left, _right, _goto, _ignore,
                   _memory_check >>

derivedVars == << _vocab, _commands, _coords, _depths, _x, _y, _string,
                  _string_stale, _coord_stale >>

objectVars == << settableVars, derivedVars, ret, calls >>

ruleVars == << c_rule, c_pc, c_ret, c_again >>

binomVars == << b_n, b_k, b_tri, b_pc, b_ret, b_done >>

searchVars == << w_angle, w_tol, w_max_iters, w_guess, w_a, w_b, w_error_np,
                w_error, w_i, w_evals, w_pc, w_ret >>

bezierVars == << z_points, z_segs, z_i, z_curve, z_pc >>

smoothVars == << s_xy, s_keep, s_temp, s_i, s_last_pt, s_curves, s_pc, s_ret >>

curveVars == << searchVars, bezierVars, smoothVars >>

callVars == << ruleVars, binomVars, searchVars, bezierVars, smoothVars >>

vars == << expandVars, interpVars, objectVars, callVars >>

(***************************************************************************)
(* A call of expand, one loop iteration per step.                          *)
(***************************************************************************)
ExpandAlphabet == { "F", "X", "|", "1" }

ExpandBars == { "|", "X" }

ExpandRules ==
    { << >>,
      << "F" >> :> << "F", "|", "F" >>,
      << "F" >> :> << "|", "|", "F" >>,
      << "X" >> :> << "F", "X" >>,
      << "1" >> :> << "F" >>,
      (<< "F" >> :> << >>) @@ (<< "X" >> :> << "X", "X" >>) }

\* the iteration recorded for the k-th character (0 when none is recorded)
ProvAt(prov, k) == IF k \in DOMAIN prov THEN prov[k] ELSE 0

\* the iteration that wrote each character of a pass's output
ProvPass(i, axiom, rule, prov) ==
    IF i = 0 THEN prov
    ELSE Flatten([k \in 1..Len(axiom) |->
                    IF << axiom[k] >> \in DOMAIN rule
                    THEN [j \in 1..Len(rule[<< axiom[k] >>]) |-> i]
                    ELSE << ProvAt(prov, k) >>])

\* the text that replaces a character was written when the character was
ProvReplace(s, old, new, prov) ==
    Flatten([k \in 1..Len(s) |->
                IF s[k] = old THEN [j \in 1..Len(new) |-> ProvAt(prov, k)]
                ELSE << ProvAt(prov, k) >>])

ExpandIdle ==
    /\ e_args = [axiom |-> << >>, rule |-> << >>, depth |-> 0, bar |-> "|",
                 memory_check |-> TRUE]
    /\ e_axiom = << >>
    /\ e_i = 0
    /\ e_pc = "idle"
    /\ e_ret = << >>
    /\ e_prov = << >>

ExpandInit ==
    /\ e_args \in [axiom : StringsUpTo(ExpandAlphabet, MaxAxiomLen),
                   rule : ExpandRules,
                   depth : 0..MaxDepth,
                   bar : ExpandBars,
                   memory_check : BOOLEAN]
    /\ e_axiom = e_args.axiom
    /\ e_i = 0
    /\ e_pc = "loop"
    /\ e_ret = << >>
    /\ e_prov = [k \in 1..Len(e_args.axiom) |-> 0]

\* lines 455-457: the ceiling is crossed, MemoryError carries i
ExpandRaise ==
    /\ e_pc = "loop"
    /\ e_i <= e_args.depth
    /\ OverCeiling(e_axiom, e_args.memory_check)
    /\ e_pc' = "raised"
    /\ UNCHANGED << e_args, e_axiom, e_i, e_ret, e_prov >>
    /\ UNCHANGED << interpVars, objectVars, callVars >>

\* lines 458-470: one iteration of the while loop
ExpandPass ==
    /\ e_pc = "loop"
    /\ e_i <= e_args.depth
    /\ ~OverCeiling(e_axiom, e_args.memory_check)
    /\ LET output == PassOutput(e_i, e_axiom, e_args.rule)
           oprov == ProvPass(e_i, e_axiom, e_args.rule, e_prov)
           tag == Str(e_i) \o << "." >>
       IN /\ e_axiom' = TagBars(output, e_args.bar, e_i)
          /\ e_prov' = ProvReplace(output, e_args.bar, tag, oprov)
    /\ e_i' = e_i + 1
    /\ UNCHANGED << e_args, e_pc, e_ret >>
    /\ UNCHANGED << interpVars, objectVars, callVars >>

\* line 471: the loop is over
ExpandReturn ==
    /\ e_pc = "loop"
    /\ e_i > e_args.depth
    /\ e_ret' = Untag(e_axiom, e_args.bar)
    /\ e_prov' = ProvReplace(e_axiom, ".", << e_args.bar >>, e_prov)
    /\ e_pc' = "returned"
    /\ UNCHANGED << e_args, e_axiom, e_i >>
    /\ UNCHANGED << interpVars, objectVars, callVars >>

ExpandNext == ExpandRaise \/ ExpandPass \/ ExpandReturn

(***************************************************************************)
(* A run of compute_coords, one character per step.                        *)
(***************************************************************************)
\* the strings the interpreter may meet: self.string is whatever expand
\* returned under the barrier symbol current at that time
InterpAlphabet == { "F", "G", "|", "+", "-", "[", "]", "0", "1", "X", "Y" }

DefaultConfig ==
    [a0 |-> 90, da |-> 90, depth |-> 0, unoise |-> 0, step |-> 1, ds |-> 1,
     forward |-> << "F" >>, bar |-> << "|" >>, left |-> << "-" >>,
     right |-> << "+" >>, goto |-> << "G" >>, ignore |-> << >>]

InterpConfigs ==
    { DefaultConfig,
      [DefaultConfig EXCEPT !.a0 = 0, !.depth = 2, !.ds = 2,
                            !.ignore = << "X" >>] }

\* longer strings with nested brackets and moves between them
InterpSamples ==
    { << "[", "F", "[", "+", "F", "]", "F", "]", "F" >>,
      << "1", "|", "[", "G", "]", "F" >>,
      << "[", "[", "F", "]", "-", "F", "]", "|" >> }

InterpIdle ==
    /\ r_cfg = DefaultConfig
    /\ r_string = << >>
    /\ r_k = 0
    /\ r_st = InterpStart(DefaultConfig)
    /\ r_pc = "idle"

\* line 540: the number that the digits at the end of s amount to
RECURSIVE PendingNumber(_)
PendingNumber(s) ==
    IF s = << >> \/ ~IsDigit(s[Len(s)]) THEN 0
    ELSE PendingNumber(SubSeq(s, 1, Len(s) - 1)) * 10 + DigitVal(s[Len(s)])

\* the strings in which no number written exceeds MaxNumber
InterpStrings ==
    { s \in StringsUpTo(InterpAlphabet, MaxStrLen) \union InterpSamples :
          \A j \in 1..Len(s) : PendingNumber(SubSeq(s, 1, j)) <= MaxNumber }

InterpInit ==
    /\ r_cfg \in InterpConfigs
    /\ r_string \in InterpStrings
    /\ r_k = 0
    /\ r_st = InterpStart(r_cfg)
    /\ r_pc = "loop"

\* lines 538-600: the next character is interpreted
InterpChar ==
    /\ r_pc = "loop"
    /\ r_k < Len(r_string)
    /\ ~StepChar(r_st, r_string[r_k + 1], r_cfg).raised
    /\ r_st' = StepChar(r_st, r_string[r_k + 1], r_cfg)
    /\ r_k' = r_k + 1
    /\ UNCHANGED << r_cfg, r_string, r_pc >>
    /\ UNCHANGED << expandVars, objectVars, callVars >>

\* line 586: stack.pop() on the empty list raises IndexError
InterpUnderflow ==
    /\ r_pc = "loop"
    /\ r_k < Len(r_string)
    /\ StepChar(r_st, r_string[r_k + 1], r_cfg).raised
    /\ r_pc' = "raised"
    /\ UNCHANGED << r_cfg, r_string, r_k, r_st >>
    /\ UNCHANGED << expandVars, objectVars, callVars >>

\* lines 602-604: the string is consumed, the two arrays are returned
InterpReturn ==
    /\ r_pc = "loop"
    /\ r_k = Len(r_string)
    /\ Len(r_st.x_y) = Len(r_st.depths)
    /\ r_pc' = "returned"
    /\ UNCHANGED << r_cfg, r_string, r_k, r_st >>
    /\ UNCHANGED << expandVars, objectVars, callVars >>

InterpNext == InterpChar \/ InterpUnderflow \/ InterpReturn

(***************************************************************************)
(* An Lsys object: construction, the setters, the derived properties.      *)
(***************************************************************************)
\* values assigned to axiom
ObjectAxioms == { << "f", "|" >>, << "]" >>, << "F", "F", "F", "F", "F" >> }

\* values assigned to rule
ObjectRules ==
    { DictRule(<< << << "F" >>, << "F", "|" >> >> >>),
      DictRule(<< << << " ", "f" >>, << >> >> >>),
      ListRule }

\* values assigned to bar
ObjectBars == { << "|" >>, << "b" >> }

\* values assigned to a0
ObjectAngles == { 90 }

\* the access returned val
Returned(op, val) == [op |-> op, error |-> "", val |-> val]

\* the access raised
Raised(op, error) == [op |-> op, error |-> error, val |-> << >>]

\* lines 31-99, for an axiom and a mapping given as rule
ObjectInit ==
    /\ \E value \in ObjectAxioms : _axiom = Upper(value)
    /\ \E value \in ObjectRules :
          /\ ~clean_rule(value).raised
          /\ _rule = value
          /\ _clean_rule = clean_rule(value).rule
    /\ _depth \in 0..MaxObjectDepth
    /\ _a0 = DefaultConfig.a0
    /\ _da = DefaultConfig.da
    /\ _step = DefaultConfig.step
    /\ _ds = DefaultConfig.ds
    /\ _unoise = DefaultConfig.unoise
    /\ _forward = Upper(DefaultConfig.forward)
    /\ _bar = Upper(DefaultConfig.bar)
    /\ _left = Upper(DefaultConfig.left)
    /\ _right = Upper(DefaultConfig.right)
    /\ _goto = Upper(DefaultConfig.goto)
    /\ _ignore = Upper(DefaultConfig.ignore)
    /\ _memory_check \in BOOLEAN
    /\ _vocab = None
    /\ _commands = None
    /\ _coords = None
    /\ _depths = None
    /\ _x = None
    /\ _y = None
    /\ _string = None
    /\ _string_stale = TRUE
    /\ _coord_stale = TRUE
    /\ ret = Returned("init", << >>)
    /\ calls = 0

ObjectIdle ==
    /\ _axiom = << >>
    /\ _rule = DictRule(<< >>)
    /\ _clean_rule = << >>
    /\ _depth = 0
    /\ _a0 = DefaultConfig.a0
    /\ _da = DefaultConfig.da
    /\ _step = DefaultConfig.step
    /\ _ds = DefaultConfig.ds
    /\ _unoise = DefaultConfig.unoise
    /\ _forward = DefaultConfig.forward
    /\ _bar = DefaultConfig.bar
    /\ _left = DefaultConfig.left
    /\ _right = DefaultConfig.right
    /\ _goto = DefaultConfig.goto
    /\ _ignore = DefaultConfig.ignore
    /\ _memory_check = TRUE
    /\ _vocab = None
    /\ _commands = None
    /\ _coords = None
    /\ _depths = None
    /\ _x = None
    /\ _y = None
    /\ _string = None
    /\ _string_stale = TRUE
    /\ _coord_stale = TRUE
    /\ ret = Returned("idle", << >>)
    /\ calls = 0

\* what no setter touches
KeepDerived == UNCHANGED << _vocab, _commands, _coords, _depths, _x, _y, _string >>

\* one more assignment or read of the object, and nothing else moves
KeepOthers ==
    /\ calls < MaxCalls
    /\ calls' = calls + 1
    /\ UNCHANGED << expandVars, interpVars, callVars >>

\* lines 139-143
SetAxiom ==
    /\ \E value \in ObjectAxioms : _axiom' = Upper(value)
    /\ _string_stale' = TRUE
    /\ _coord_stale' = TRUE
    /\ ret' = Returned("set", << >>)
    /\ UNCHANGED << _rule, _clean_rule, _depth, _a0, _da, _step, _ds, _unoise,
                    _forward, _bar, _left, _right, _goto, _ignore, _memory_check >>
    /\ KeepDerived /\ KeepOthers

\* lines 149-154: the value is stored before it is cleaned
SetRule ==
    /\ \E value \in ObjectRules :
          /\ _rule' = value
          /\ IF clean_rule(value).raised
             THEN /\ ret' = Raised("set", "ValueError")
                  /\ UNCHANGED << _clean_rule, _string_stale, _coord_stale >>
             ELSE /\ _clean_rule' = clean_rule(value).rule
                  /\ _string_stale' = TRUE
                  /\ _coord_stale' = TRUE
                  /\ ret' = Returned("set", << >>)
    /\ UNCHANGED << _axiom, _depth, _a0, _da, _step, _ds, _unoise,
                    _forward, _bar, _left, _right, _goto, _ignore, _memory_check >>
    /\ KeepDerived /\ KeepOthers

\* lines 160-164
SetDepth ==
    /\ \E value \in 0..MaxObjectDepth : _depth' = value
    /\ _string_stale' = TRUE
    /\ _coord_stale' = TRUE
    /\ ret' = Returned("set", << >>)
    /\ UNCHANGED << _axiom, _rule, _clean_rule, _a0, _da, _step, _ds, _unoise,
                    _forward, _bar, _left, _right, _goto, _ignore, _memory_check >>
    /\ KeepDerived /\ KeepOthers

\* lines 170-173
SetA0 ==
    /\ \E value \in ObjectAngles : _a0' = value
    /\ _coord_stale' = TRUE
    /\ ret' = Returned("set", << >>)
    /\ UNCHANGED << _axiom, _rule, _clean_rule, _depth, _da, _step, _ds, _unoise,
                    _forward, _bar, _left, _right, _goto, _ignore, _memory_check >>
    /\ UNCHANGED _string_stale /\ KeepDerived /\ KeepOthers

\* lines 179-182
SetDa ==
    /\ _da' = DefaultConfig.da
    /\ _coord_stale' = TRUE
    /\ ret' = Returned("set", << >>)
    /\ UNCHANGED << _axiom, _rule, _clean_rule, _depth, _a0, _step, _ds, _unoise,
                    _forward, _bar, _left, _right, _goto, _ignore, _memory_check >>
    /\ UNCHANGED _string_stale /\ KeepDerived /\ KeepOthers

\* lines 188-191
SetStep ==
    /\ _step' = DefaultConfig.step
    /\ _coord_stale' = TRUE
    /\ ret' = Returned("set", << >>)
    /\ UNCHANGED << _axiom, _rule, _clean_rule, _depth, _a0, _da, _ds, _unoise,
                    _forward, _bar, _left, _right, _goto, _ignore, _memory_check >>
    /\ UNCHANGED _string_stale /\ KeepDerived /\ KeepOthers

\* lines 197-200
SetDs ==
    /\ _ds' = DefaultConfig.ds
    /\ _coord_stale' = TRUE
    /\ ret' = Returned("set", << >>)
    /\ UNCHANGED << _axiom, _rule, _clean_rule, _depth, _a0, _da, _step, _unoise,
                    _forward, _bar, _left, _right, _goto, _ignore, _memory_check >>
    /\ UNCHANGED _string_stale /\ KeepDerived /\ KeepOthers

\* lines 206-209
SetUnoise ==
    /\ _unoise' = DefaultConfig.unoise
    /\ _coord_stale' = TRUE
    /\ ret' = Returned("set", << >>)
    /\ UNCHANGED << _axiom, _rule, _clean_rule, _depth, _a0, _da, _step, _ds,
                    _forward, _bar, _left, _right, _goto, _ignore, _memory_check >>
    /\ UNCHANGED _string_stale /\ KeepDerived /\ KeepOthers

\* lines 215-218
SetForward ==
    /\ _forward' = Upper(DefaultConfig.forward)
    /\ _coord_stale' = TRUE
    /\ ret' = Returned("set", << >>)
    /\ UNCHANGED << _axiom, _rule, _clean_rule, _depth, _a0, _da, _step, _ds,
                    _unoise, _bar, _left, _right, _goto, _ignore, _memory_check >>
    /\ UNCHANGED _string_stale /\ KeepDerived /\ KeepOthers

\* lines 224-227
SetBar ==
    /\ \E value \in ObjectBars : _bar' = Upper(value)
    /\ _coord_stale' = TRUE
    /\ ret' = Returned("set", << >>)
    /\ UNCHANGED << _axiom, _rule, _clean_rule, _depth, _a0, _da, _step, _ds,
                    _unoise, _forward, _left, _right, _goto, _ignore, _memory_check >>
    /\ UNCHANGED _string_stale /\ KeepDerived /\ KeepOthers

\* lines 233-236
SetLeft ==
    /\ _left' = Upper(DefaultConfig.left)
    /\ _coord_stale' = TRUE
    /\ ret' = Returned("set", << >>)
    /\ UNCHANGED << _axiom, _rule, _clean_rule, _depth, _a0, _da, _step, _ds,
                    _unoise, _forward, _bar, _right, _goto, _ignore, _memory_check >>
    /\ UNCHANGED _string_stale /\ KeepDerived /\ KeepOthers

\* lines 242-245
SetRight ==
    /\ _right' = Upper(DefaultConfig.right)
    /\ _coord_stale' = TRUE
    /\ ret' = Returned("set", << >>)
    /\ UNCHANGED << _axiom, _rule, _clean_rule, _depth, _a0, _da, _step, _ds,
                    _unoise, _forward, _bar, _left, _goto, _ignore, _memory_check >>
    /\ UNCHANGED _string_stale /\ KeepDerived /\ KeepOthers

\* lines 251-254
SetGoto ==
    /\ _goto' = Upper(DefaultConfig.goto)
    /\ _coord_stale' = TRUE
    /\ ret' = Returned("set", << >>)
    /\ UNCHANGED << _axiom, _rule, _clean_rule, _depth, _a0, _da, _step, _ds,
                    _unoise, _forward, _bar, _left, _right, _ignore, _memory_check >>
    /\ UNCHANGED _string_stale /\ KeepDerived /\ KeepOthers

\* lines 260-263
SetIgnore ==
    /\ _ignore' = Upper(DefaultConfig.ignore)
    /\ _coord_stale' = TRUE
    /\ ret' = Returned("set", << >>)
    /\ UNCHANGED << _axiom, _rule, _clean_rule, _depth, _a0, _da, _step, _ds,
                    _unoise, _forward, _bar, _left, _right, _goto, _memory_check >>
    /\ UNCHANGED _string_stale /\ KeepDerived /\ KeepOthers

\* lines 277-281
SetMemoryCheck ==
    /\ \E value \in BOOLEAN : _memory_check' = value
    /\ ret' = Returned("set", << >>)
    /\ UNCHANGED << _axiom, _rule, _clean_rule, _depth, _a0, _da, _step, _ds,
                    _unoise, _forward, _bar, _left, _right, _goto, _ignore >>
    /\ UNCHANGED << _string_stale, _coord_stale >> /\ KeepDerived /\ KeepOthers

\* the attributes compute_coords reads (lines 511-523)
Config ==
    [a0 |-> _a0, da |-> _da, depth |-> _depth, unoise |-> _unoise,
     step |-> _step, ds |-> _ds, forward |-> _forward, bar |-> _bar,
     left |-> _left, right |-> _right, goto |-> _goto, ignore |-> _ignore]

\* the derived attributes as an access may leave them
Cache == [string |-> _string, string_stale |-> _string_stale,
          coords |-> _coords, depths |-> _depths, x |-> _x, y |-> _y,
          coord_stale |-> _coord_stale]

\* the outcome of an access: the exception raised ("" for none) or the value
\* returned, and the cache it leaves
Outcome(error, val, cache) ==
    [error |-> error, raised |-> error # "", val |-> val, cache |-> cache]

\* algo.coords_to_xy: coords[:, :, axis].flatten(); an array of no segments
\* has one dimension and the indexing raises IndexError
CoordsToXY(coords) ==
    [raised |-> coords = << >>,
     x |-> Flatten([k \in 1..Len(coords) |->
                      << [nan |-> coords[k].nan, v |-> coords[k].p[1]],
                         [nan |-> coords[k].nan, v |-> coords[k].q[1]] >>]),
     y |-> Flatten([k \in 1..Len(coords) |->
                      << [nan |-> coords[k].nan, v |-> coords[k].p[2]],
                         [nan |-> coords[k].nan, v |-> coords[k].q[2]] >>])]

\* lines 284-295: self.string
StringGet(cache) ==
    IF cache.string = None \/ cache.string[1] = << >> \/ cache.string_stale
    THEN The({ IF r.raised THEN Outcome("MemoryError", << >>, cache)
               ELSE Outcome("", r.string,
                            [cache EXCEPT !.string = Some(r.string),
                                          !.string_stale = FALSE]) :
               r \in { expand(_axiom, _clean_rule, _depth, _bar[1],
                              _memory_check) } })
    ELSE Outcome("", cache.string[1], cache)

\* a recomputation that stores the segments built before an underflow
CoordsRefreshHalfBuilt(cache) ==
    IF cache.coords = None \/ cache.coord_stale
    THEN The({ IF s.raised THEN s
               ELSE The({ IF run.raised
                          THEN Outcome("IndexError: pop", << >>,
                                       [s.cache EXCEPT
                                           !.coords = Some(run.x_y),
                                           !.depths = Some(run.depths)])
                          ELSE Outcome("", << >>,
                                       [s.cache EXCEPT
                                           !.coords = Some(run.x_y),
                                           !.depths = Some(run.depths),
                                           !.x = None, !.y = None,
                                           !.coord_stale = FALSE]) :
                          run \in { Interpret(s.val, Config) } }) :
               s \in { StringGet(cache) } })
    ELSE Outcome("", << >>, cache)

\* a recomputation that leaves the cached x and y in place
CoordsRefreshKeepsXY(cache) ==
    IF cache.coords = None \/ cache.coord_stale
    THEN The({ IF s.raised THEN s
               ELSE The({ IF run.raised
                          THEN Outcome("IndexError: pop", << >>, s.cache)
                          ELSE Outcome("", << >>,
                                       [s.cache EXCEPT
                                           !.coords = Some(run.x_y),
                                           !.depths = Some(run.depths),
                                           !.coord_stale = FALSE]) :
                          run \in { Interpret(s.val, Config) } }) :
               s \in { StringGet(cache) } })
    ELSE Outcome("", << >>, cache)

\* lines 311-314 and 319-322: the recomputation shared by coords and depths
CoordsRefresh(cache) ==
    IF cache.coords = None \/ cache.coord_stale
    THEN The({ IF s.raised THEN s
               ELSE The({ IF run.raised
                          THEN Outcome("IndexError: pop", << >>, s.cache)
                          ELSE Outcome("", << >>,
                                       [s.cache EXCEPT
                                           !.coords = Some(run.x_y),
                                           !.depths = Some(run.depths),
                                           !.x = None, !.y = None,
                                           !.coord_stale = FALSE]) :
                          run \in { Interpret(s.val, Config) } }) :
               s \in { StringGet(cache) } })
    ELSE Outcome("", << >>, cache)

\* lines 317-323: self.coords
CoordsGet(cache) ==
    The({ IF r.raised THEN r ELSE Outcome("", r.cache.coords[1], r.cache) :
          r \in { CoordsRefresh(cache) } })

\* lines 309-315: self.depths
DepthsGet(cache) ==
    The({ IF r.raised THEN r ELSE Outcome("", r.cache.depths[1], r.cache) :
          r \in { CoordsRefresh(cache) } })

\* lines 328 and 334: self._x, self._y = algo.coords_to_xy(self.coords)
XYRefresh(cache) ==
    The({ IF c.raised THEN c
          ELSE The({ IF xy.raised
                     THEN Outcome("IndexError: indices", << >>, c.cache)
                     ELSE Outcome("", << >>,
                                  [c.cache EXCEPT !.x = Some(xy.x),
                                                  !.y = Some(xy.y)]) :
                     xy \in { CoordsToXY(c.val) } }) :
          c \in { CoordsGet(cache) } })

\* lines 325-329: self.x
XGet(cache) ==
    IF cache.x = None \/ cache.coord_stale
    THEN The({ IF r.raised THEN r ELSE Outcome("", r.cache.x[1], r.cache) :
               r \in { XYRefresh(cache) } })
    ELSE Outcome("", cache.x[1], cache)

\* lines 331-335: self.y
YGet(cache) ==
    IF cache.y = None \/ cache.coord_stale
    THEN The({ IF r.raised THEN r ELSE Outcome("", r.cache.y[1], r.cache) :
               r \in { XYRefresh(cache) } })
    ELSE Outcome("", cache.y[1], cache)

\* an access to a derived property: the cache it leaves, what it returns
Access(op, r) ==
    /\ _string' = r.cache.string
    /\ _string_stale' = r.cache.string_stale
    /\ _coords' = r.cache.coords
    /\ _depths' = r.cache.depths
    /\ _x' = r.cache.x
    /\ _y' = r.cache.y
    /\ _coord_stale' = r.cache.coord_stale
    /\ ret' = IF r.raised THEN Raised(op, r.error) ELSE Returned(op, r.val)
    /\ UNCHANGED << settableVars, _vocab, _commands >>
    /\ KeepOthers

ReadString == \E r \in { StringGet(Cache) } : Access("string", r)

ReadCoords == \E r \in { CoordsGet(Cache) } : Access("coords", r)

ReadDepths == \E r \in { DepthsGet(Cache) } : Access("depths", r)

ReadX == \E r \in { XGet(Cache) } : Access("x", r)

ReadY == \E r \in { YGet(Cache) } : Access("y", r)

\* lines 337-359: the characters of the rules, the axiom and the symbols
BuildVocab ==
    LET keys == UNION { Chars(key) : key \in DOMAIN _clean_rule }
        values == UNION { Chars(_clean_rule[key]) : key \in DOMAIN _clean_rule }
        symbols == Chars(_axiom \o _forward \o _goto \o _right \o _left
                            \o _bar \o _ignore)
    IN (keys \union values \union symbols) \ { " " }

\* lines 361-366
BuildCommands == Chars(_forward \o _goto \o _right \o _left \o _bar) \ { " " }

\* lines 297-301: self.vocab
ReadVocab ==
    /\ IF _vocab = None
       THEN IF "." \in BuildVocab
            THEN ret' = Raised("vocab", "Exception") /\ UNCHANGED _vocab
            ELSE _vocab' = Some(BuildVocab) /\ ret' = Returned("vocab", BuildVocab)
       ELSE ret' = Returned("vocab", _vocab[1]) /\ UNCHANGED _vocab
    /\ UNCHANGED << settableVars, _commands, _coords, _depths, _x, _y, _string,
                    _string_stale, _coord_stale >>
    /\ KeepOthers

\* lines 303-307: self.commands
ReadCommands ==
    /\ IF _commands = None
       THEN _commands' = Some(BuildCommands)
               /\ ret' = Returned("commands", BuildCommands)
       ELSE ret' = Returned("commands", _commands[1]) /\ UNCHANGED _commands
    /\ UNCHANGED << settableVars, _vocab, _coords, _depths, _x, _y, _string,
                    _string_stale, _coord_stale >>
    /\ KeepOthers

Setter ==
    \/ SetAxiom \/ SetRule \/ SetDepth \/ SetA0 \/ SetDa \/ SetStep \/ SetDs
    \/ SetUnoise \/ SetForward \/ SetBar \/ SetLeft \/ SetRight \/ SetGoto
    \/ SetIgnore \/ SetMemoryCheck

ObjectNext ==
    \/ Setter
    \/ ReadString \/ ReadCoords \/ ReadDepths \/ ReadX \/ ReadY

AlphabetNext == Setter \/ ReadVocab \/ ReadCommands

(***************************************************************************)
(* A call of Lsys.clean_rule.                                              *)
(***************************************************************************)
MaxRuleLen == 3

RuleAlphabet == { "x", "F", " ", "=", ":", "-", ">", ";", ",", "." }

\* longer texts: several rules, the three-character separator, a rule
\* without separator beside one with, a key of two characters
RuleSamples ==
    { << "x", ":", " ", "F", "-", "x", ";", " ", "y", " ", "-", "-", ">", " ", "x", ".", "y" >>,
      << "x", "-", ">", "F", ",", "y" >>,
      << "x", "=", "F", ";", "y", "-", "F" >>,
      << "x", "y", " ", "=", ">", " ", "F" >>,
      << "x", "=", "y", "=", "F" >>,
      << "x", " ", "-", ">", " ", "F", "x" >> }

RuleStrings == StringsUpTo(RuleAlphabet, MaxRuleLen) \union RuleSamples

RuleDictKeys == { << "x" >>, << "X", " " >>, << " ", "x", "y" >>, << " " >> }

RuleDictValues == { << "f" >>, << " ", "F", ".", " " >>, << >> }

RuleDictItems == RuleDictKeys \X RuleDictValues

RuleDicts ==
    { DictRule(<< a >>) : a \in RuleDictItems }
        \union { DictRule(<< a, b >>) : a \in RuleDictItems, b \in RuleDictItems }

RuleInputs == { StrRule(t) : t \in RuleStrings } \union RuleDicts \union { ListRule }

NoOutcome == [raised |-> FALSE, error |-> "", rule |-> << >>]

\* the items of a mapping, in each order a dict may hold them
ItemOrders(f) ==
    { items \in [1..Cardinality(DOMAIN f) -> { << k, f[k] >> : k \in DOMAIN f }] :
          \A i, j \in 1..Cardinality(DOMAIN f) : i # j => items[i] # items[j] }

RuleIdle ==
    /\ c_rule = ListRule
    /\ c_pc = "idle"
    /\ c_ret = NoOutcome
    /\ c_again = NoOutcome

RuleInit ==
    /\ c_rule \in RuleInputs
    /\ c_pc = "called"
    /\ c_ret = NoOutcome
    /\ c_again = NoOutcome

\* lines 410-412, 420 and 425-426: the call ends in a ValueError
CleanRaise ==
    /\ c_pc = "called"
    /\ \E r \in { clean_rule(c_rule) } :
          /\ r.raised
          /\ c_ret' = r
    /\ c_pc' = "raised"
    /\ UNCHANGED << c_rule, c_again >>
    /\ UNCHANGED << expandVars, interpVars, objectVars, binomVars, curveVars >>

\* lines 396 and 423: the call returns the mapping
CleanReturn ==
    /\ c_pc = "called"
    /\ \E r \in { clean_rule(c_rule) } :
          /\ ~r.raised
          /\ c_ret' = r
    /\ c_pc' = "returned"
    /\ UNCHANGED << c_rule, c_again >>
    /\ UNCHANGED << expandVars, interpVars, objectVars, binomVars, curveVars >>

\* the mapping returned is given to clean_rule as its argument
CleanAgain ==
    /\ c_pc = "returned"
    /\ \E items \in ItemOrders(c_ret.rule) :
          c_again' = clean_rule(DictRule(items))
    /\ c_pc' = "again"
    /\ UNCHANGED << c_rule, c_ret >>
    /\ UNCHANGED << expandVars, interpVars, objectVars, binomVars, curveVars >>

RuleNext == CleanRaise \/ CleanReturn \/ CleanAgain

(***************************************************************************)
(* Calls of bezier.binomial.                                               *)
(***************************************************************************)
MaxN == 9

MaxBinomCalls == 2

\* lines 63-70
TriLiteral ==
    << << 1 >>,
       << 1, 1 >>,
       << 1, 2, 1 >>,
       << 1, 3, 3, 1 >>,
       << 1, 4, 6, 4, 1 >>,
       << 1, 5, 10, 10, 5, 1 >>,
       << 1, 6, 15, 20, 15, 6, 1 >> >>

\* every inner entry repeats the entry above it to the left
NextRowLeftOnly(tri) ==
    [i \in 1..(Len(tri) + 1) |->
        IF i = 1 \/ i = Len(tri) + 1 THEN 1
        ELSE tri[Len(tri)][i - 1]]

\* lines 73-79: the row after the last one of tri (positions from 1)
NextRow(tri) ==
    [i \in 1..(Len(tri) + 1) |->
        IF i = 1 \/ i = Len(tri) + 1 THEN 1
        ELSE tri[Len(tri)][i - 1] + tri[Len(tri)][i]]

\* lines 72-80: the loop run to its end
RECURSIVE TriFor(_, _)
TriFor(tri, n) ==
    IF n >= Len(tri) THEN TriFor(Append(tri, NextRow(tri)), n) ELSE tri

\* lines 45-81: what binomial(n, k) returns
binomial(n, k) == TriFor(TriLiteral, n)[n + 1][k + 1]

BinomIdle ==
    /\ b_n = 0
    /\ b_k = 0
    /\ b_tri = << >>
    /\ b_pc = "idle"
    /\ b_ret = None
    /\ b_done = 0

\* a first call binomial(n, k) with 0 <= k <= n: line 63 has run
BinomInit ==
    /\ b_n \in 0..MaxN
    /\ b_k \in 0..b_n
    /\ b_tri = TriLiteral
    /\ b_pc = "loop"
    /\ b_ret = None
    /\ b_done = 0

\* lines 72-80: one turn of the while loop
BinomRow ==
    /\ b_pc = "loop"
    /\ b_n >= Len(b_tri)
    /\ b_tri' = Append(b_tri, NextRow(b_tri))
    /\ UNCHANGED << b_n, b_k, b_pc, b_ret, b_done >>
    /\ UNCHANGED << expandVars, interpVars, objectVars, ruleVars, curveVars >>

\* line 81
BinomReturn ==
    /\ b_pc = "loop"
    /\ b_n < Len(b_tri)
    /\ b_ret' = Some(b_tri[b_n + 1][b_k + 1])
    /\ b_pc' = "returned"
    /\ UNCHANGED << b_n, b_k, b_tri, b_done >>
    /\ UNCHANGED << expandVars, interpVars, objectVars, ruleVars, curveVars >>

\* the next call: tri is a local of the function, built anew at line 63
BinomCall ==
    /\ b_pc = "returned"
    /\ b_done < MaxBinomCalls
    /\ \E n \in 0..MaxN : \E k \in 0..n :
          /\ b_n' = n
          /\ b_k' = k
    /\ b_tri' = TriLiteral
    /\ b_pc' = "loop"
    /\ b_ret' = None
    /\ b_done' = b_done + 1
    /\ UNCHANGED << expandVars, interpVars, objectVars, ruleVars, curveVars >>

BinomNext == BinomRow \/ BinomReturn \/ BinomCall

(***************************************************************************)
(* A call of bezier.find_circular_weight.  Weights are counted in units of *)
(* 1 / WeightOne, so that every midpoint of the search is a whole number;  *)
(* the deviations of the sampled curve from the circle are whole numbers   *)
(* of some small unit, and any of them may come out of an evaluation.      *)
(***************************************************************************)
\* most iterations asked for
MaxIters == 3

\* the initial guesses are the multiples of 1 / GuessDen
GuessDen == 4

\* largest deviation of a sample from the circle, either way
MaxDev == 2

\* the weight 1
WeightOne == GuessDen * Pow(2, MaxIters)

SearchAngles == { -90, 0, 1, 90, 179, 180, 270 }

SearchGuesses == { k * Pow(2, MaxIters) : k \in -1..(GuessDen + 1) }

SearchTols == { 1, 2 }

\* line 297: error_np, here for two samples of the curve
Deviations == [1..2 -> -MaxDev..MaxDev]

AbsVal(v) == IF v < 0 THEN -v ELSE v

ArrMax(arr) == CHOOSE m \in { arr[k] : k \in DOMAIN arr } :
                   \A k \in DOMAIN arr : arr[k] <= m

ArrMin(arr) == CHOOSE m \in { arr[k] : k \in DOMAIN arr } :
                   \A k \in DOMAIN arr : arr[k] >= m

\* the spread of the deviations
ErrorOfSpread(error_np) == ArrMax(error_np) - ArrMin(error_np)

\* lines 298-300
ErrorOf(error_np) == AbsVal(ArrMax(error_np)) - AbsVal(ArrMin(error_np))

\* the end values pass
ValidArgsInclusive(angle, guess) ==
    /\ 0 <= angle /\ angle <= 180
    /\ 0 <= guess /\ guess <= WeightOne

\* lines 254 and 257: neither check raises
ValidArgs(angle, guess) ==
    /\ 0 < angle /\ angle < 180
    /\ 0 < guess /\ guess < WeightOne

\* an error equal to the tolerance ends the search as well
ConvergedInclusive(error, tol) == -tol <= error /\ error <= tol

\* line 281
Converged(error, tol) == -tol < error /\ error < tol

\* the two bounds trade places
ResumeSwapped(a, b, guess, error) ==
    IF error > 0
    THEN [a |-> a, b |-> guess, guess |-> (a + guess) \div 2]
    ELSE [a |-> guess, b |-> b, guess |-> (guess + b) \div 2]

\* the next guess is the bound that was moved
ResumeAtBound(a, b, guess, error) ==
    IF error > 0
    THEN [a |-> guess, b |-> b, guess |-> guess]
    ELSE [a |-> a, b |-> guess, guess |-> guess]

\* lines 304-308: the generator is resumed after a yield
Resume(a, b, guess, error) ==
    IF error > 0
    THEN [a |-> guess, b |-> b, guess |-> (guess + b) \div 2]
    ELSE [a |-> a, b |-> guess, guess |-> (a + guess) \div 2]

\* what the call returned, or the exception that ended it
SearchOutcome(error, guess, error_np, err, i) ==
    [error |-> error, guess |-> guess, error_np |-> error_np, err |-> err,
     i |-> i]

NoSearchOutcome == SearchOutcome("", 0, << >>, 0, 0)

SearchIdle ==
    /\ w_angle = 0
    /\ w_tol = 0
    /\ w_max_iters = 0
    /\ w_guess = 0
    /\ w_a = 0
    /\ w_b = 0
    /\ w_error_np = << >>
    /\ w_error = 0
    /\ w_i = 0
    /\ w_evals = 0
    /\ w_pc = "idle"
    /\ w_ret = NoSearchOutcome

\* line 200: the call, with its arguments
SearchInit ==
    /\ w_angle \in SearchAngles
    /\ w_tol \in SearchTols
    /\ w_max_iters \in 0..MaxIters
    /\ w_guess \in SearchGuesses
    /\ w_a = 0
    /\ w_b = 0
    /\ w_error_np = << >>
    /\ w_error = 0
    /\ w_i = 0
    /\ w_evals = 0
    /\ w_pc = "called"
    /\ w_ret = NoSearchOutcome

KeepSearchArgs == UNCHANGED << w_angle, w_tol, w_max_iters >>

KeepOthersOfSearch ==
    UNCHANGED << expandVars, interpVars, objectVars, ruleVars, binomVars,
                 bezierVars, smoothVars >>

\* lines 254-258
SearchRaise ==
    /\ w_pc = "called"
    /\ ~ValidArgs(w_angle, w_guess)
    /\ w_pc' = "raised"
    /\ w_ret' = SearchOutcome("ValueError", 0, << >>, 0, 0)
    /\ UNCHANGED << w_guess, w_a, w_b, w_error_np, w_error, w_i, w_evals >>
    /\ KeepSearchArgs /\ KeepOthersOfSearch

\* lines 260-277: the geometry, the two bounds, the generator
SearchStart ==
    /\ w_pc = "called"
    /\ ValidArgs(w_angle, w_guess)
    /\ w_a' = WeightOne
    /\ w_b' = 0
    /\ w_pc' = "loop"
    /\ UNCHANGED << w_guess, w_error_np, w_error, w_i, w_evals, w_ret >>
    /\ KeepSearchArgs /\ KeepOthersOfSearch

\* lines 278-282 and 289-308: one turn of the loop. next() resumes the
\* generator where it yielded (lines 304-308, except the first time), then
\* lines 290-302 evaluate the guess and yield
SearchEvaluate ==
    /\ w_pc = "loop"
    /\ w_i < w_max_iters
    /\ \E gen \in { IF w_evals = 0
                     THEN [a |-> w_a, b |-> w_b, guess |-> w_guess]
                     ELSE Resume(w_a, w_b, w_guess, w_error) } :
       \E error_np \in Deviations :
          /\ w_a' = gen.a
          /\ w_b' = gen.b
          /\ w_guess' = gen.guess
          /\ w_error_np' = error_np
          /\ w_error' = ErrorOf(error_np)
          /\ w_evals' = w_evals + 1
          /\ IF Converged(ErrorOf(error_np), w_tol)
             THEN /\ w_pc' = "returned"
                  /\ w_ret' = SearchOutcome("", gen.guess, error_np,
                                            ErrorOf(error_np), w_i)
                  /\ w_i' = w_i
             ELSE /\ w_pc' = "loop"
                  /\ w_i' = w_i + 1
                  /\ w_ret' = w_ret
    /\ KeepSearchArgs /\ KeepOthersOfSearch

\* line 284, after range(max_iters) has run out
SearchExhausted ==
    /\ w_pc = "loop"
    /\ w_i >= w_max_iters
    /\ w_max_iters > 0
    /\ w_pc' = "returned"
    /\ w_ret' = SearchOutcome("", w_guess, w_error_np, w_error, w_i - 1)
    /\ UNCHANGED << w_guess, w_a, w_b, w_error_np, w_error, w_i, w_evals >>
    /\ KeepSearchArgs /\ KeepOthersOfSearch

\* line 284 with max_iters = 0: error_np was never assigned
SearchUnbound ==
    /\ w_pc = "loop"
    /\ w_max_iters = 0
    /\ w_pc' = "raised"
    /\ w_ret' = SearchOutcome("UnboundLocalError", 0, << >>, 0, 0)
    /\ UNCHANGED << w_guess, w_a, w_b, w_error_np, w_error, w_i, w_evals >>
    /\ KeepSearchArgs /\ KeepOthersOfSearch

SearchNext ==
    \/ SearchRaise \/ SearchStart \/ SearchEvaluate \/ SearchExhausted
    \/ SearchUnbound

(***************************************************************************)
(* A call of bezier.bezier.  The parameter values of linspace(0, 1, segs+1) *)
(* are j / segs, so a Bernstein weight of order n is a whole number over   *)
(* segs ** n: the weights and the curve are kept as these numerators.      *)
(***************************************************************************)
\* largest coordinate of a control point
MaxCoord == 1

\* most segments asked for
MaxSegs == 3

BezierGrid == (-MaxCoord..MaxCoord) \X (0..1)

\* the arrays of three and of four control points
BezierInputs == [1..3 -> BezierGrid] \union [1..4 -> BezierGrid]

\* the weight leans to one side
PolyLopsided(n, k, j, segs) ==
    binomial(n, k) * Pow(segs - j, n) * Pow(j, k)

\* lines 104-108: poly(n, k)(j / segs), times segs ** n
Poly(n, k, j, segs) ==
    binomial(n, k) * Pow(segs - j, n - k) * Pow(j, k)

BezierIdle ==
    /\ z_points = << >>
    /\ z_segs = 0
    /\ z_i = 0
    /\ z_curve = << >>
    /\ z_pc = "idle"

\* lines 140-148: the call, up to the curve of zeros
BezierInit ==
    /\ z_points \in BezierInputs
    /\ z_segs \in 1..MaxSegs
    /\ z_i = 0
    /\ z_curve = [j \in 1..(z_segs + 1) |-> << 0, 0 >>]
    /\ z_pc = "loop"

KeepOthersOfBezier ==
    UNCHANGED << expandVars, interpVars, objectVars, ruleVars, binomVars,
                 searchVars, smoothVars >>

\* lines 149-150: the share of control point i (counted from 0) is added to
\* every sample
BezierAdd ==
    /\ z_pc = "loop"
    /\ z_i < Len(z_points)
    /\ z_curve' =
          [j \in 1..(z_segs + 1) |->
              << z_curve[j][1]
                   + Poly(Len(z_points) - 1, z_i, j - 1, z_segs)
                       * z_points[z_i + 1][1],
                 z_curve[j][2]
                   + Poly(Len(z_points) - 1, z_i, j - 1, z_segs)
                       * z_points[z_i + 1][2] >>]
    /\ z_i' = z_i + 1
    /\ UNCHANGED << z_points, z_segs, z_pc >>
    /\ KeepOthersOfBezier

\* line 152
BezierReturn ==
    /\ z_pc = "loop"
    /\ z_i >= Len(z_points)
    /\ z_pc' = "returned"
    /\ UNCHANGED << z_points, z_segs, z_i, z_curve >>
    /\ KeepOthersOfBezier

BezierNext == BezierAdd \/ BezierReturn

(***************************************************************************)
(* A call of bezier.bezier_xy.  x and y are given as one sequence of       *)
(* points, not-a-number in both where the pen was lifted.  Every midpoint  *)
(* carries the positions of the two points it lies between, and a curve is *)
(* kept as the three midpoints it is built from.                           *)
(***************************************************************************)
\* longest sequence of points
MaxPts == 5

NanPoint == [nan |-> TRUE, x |-> 0, y |-> 0]

Point(x, y) == [nan |-> FALSE, x |-> x, y |-> y]

SmoothPoints == { NanPoint, Point(0, 0), Point(2, 0), Point(2, 2) }

\* x and y of two segments with a pen-lift between them, as coords_to_xy
\* gives them
SmoothSamples ==
    { << Point(0, 0), Point(2, 0), NanPoint, NanPoint, Point(4, 0),
         Point(6, 0) >> }

SmoothInputs == StringsUpTo(SmoothPoints, MaxPts) \union SmoothSamples

\* algo.py line 33: the positions of np_array[~numpy.isnan(np_array)]
NotNan(xy) ==
    SelectSeq([k \in 1..Len(xy) |-> k], LAMBDA k : ~xy[k].nan)

\* algo.py lines 32-37 for x and for y, bezier.py lines 345-347
Midpoints(xy) ==
    [m \in 1..(Len(NotNan(xy)) - 1) |->
        [x |-> (xy[NotNan(xy)[m]].x + xy[NotNan(xy)[m + 1]].x) \div 2,
         y |-> (xy[NotNan(xy)[m]].y + xy[NotNan(xy)[m + 1]].y) \div 2,
         from |-> << NotNan(xy)[m], NotNan(xy)[m + 1] >>]]

\* numpy.array_equal on two rows of temp
SamePlace(p, q) == p.x = q.x /\ p.y = q.y

SmoothOutcome(error, curves, first, last) ==
    [error |-> error, curves |-> curves, first |-> first, last |-> last]

NoSmoothOutcome == SmoothOutcome("", << >>, << >>, << >>)

SmoothIdle ==
    /\ s_xy = << >>
    /\ s_keep = TRUE
    /\ s_temp = << >>
    /\ s_i = 0
    /\ s_last_pt = << >>
    /\ s_curves = << >>
    /\ s_pc = "idle"
    /\ s_ret = NoSmoothOutcome

\* line 311: the call, with its arguments
SmoothInit ==
    /\ s_xy \in SmoothInputs
    /\ s_keep \in BOOLEAN
    /\ s_temp = << >>
    /\ s_i = 0
    /\ s_last_pt = << >>
    /\ s_curves = << >>
    /\ s_pc = "called"
    /\ s_ret = NoSmoothOutcome

KeepOthersOfSmooth ==
    UNCHANGED << expandVars, interpVars, objectVars, ruleVars, binomVars,
                 searchVars, bezierVars >>

\* lines 342-352
SmoothMidpoints ==
    /\ s_pc = "called"
    /\ s_temp' = Midpoints(s_xy)
    /\ s_i' = 0
    /\ s_pc' = "loop"
    /\ UNCHANGED << s_xy, s_keep, s_last_pt, s_curves, s_ret >>
    /\ KeepOthersOfSmooth

\* lines 353-362 for i = s_i, with pt[2] in reach: the turn is skipped
\* (line 356) or the curve through pt[0], pt[1], pt[2] is built
SmoothCurve ==
    /\ s_pc = "loop"
    /\ s_i < Len(s_temp) - 1
    /\ s_i + 3 <= Len(s_temp)
    /\ IF s_i > 0 /\ ~SamePlace(s_temp[s_i + 1], s_last_pt[1])
       THEN UNCHANGED << s_curves, s_last_pt >>
       ELSE /\ s_curves' = Append(s_curves,
                                  SubSeq(s_temp, s_i + 1, s_i + 3))
            /\ s_last_pt' = << s_temp[s_i + 3] >>
    /\ s_i' = s_i + 2
    /\ UNCHANGED << s_xy, s_keep, s_temp, s_pc, s_ret >>
    /\ KeepOthersOfSmooth

\* lines 354-358 when temp[i:i + 3] has two rows only: pt[2] raises
SmoothIndexError ==
    /\ s_pc = "loop"
    /\ s_i < Len(s_temp) - 1
    /\ s_i + 3 > Len(s_temp)
    /\ ~(s_i > 0 /\ ~SamePlace(s_temp[s_i + 1], s_last_pt[1]))
    /\ s_pc' = "raised"
    /\ s_ret' = SmoothOutcome("IndexError", << >>, << >>, << >>)
    /\ UNCHANGED << s_xy, s_keep, s_temp, s_i, s_last_pt, s_curves >>
    /\ KeepOthersOfSmooth

\* lines 364-372
SmoothReturn ==
    /\ s_pc = "loop"
    /\ s_i >= Len(s_temp) - 1
    /\ s_pc' = "returned"
    /\ s_ret' = SmoothOutcome("", s_curves,
                              IF s_keep /\ s_xy # << >>
                              THEN << s_xy[1] >> ELSE << >>,
                              IF s_keep /\ s_xy # << >>
                              THEN << s_xy[Len(s_xy)] >> ELSE << >>)
    /\ UNCHANGED << s_xy, s_keep, s_temp, s_i, s_last_pt, s_curves >>
    /\ KeepOthersOfSmooth

SmoothNext ==
    SmoothMidpoints \/ SmoothCurve \/ SmoothIndexError \/ SmoothReturn

(***************************************************************************)
(* Specifications.                                                         *)
(***************************************************************************)
\* calls of expand on every bounded input
InitExpand == ExpandInit /\ InterpIdle /\ ObjectIdle /\ RuleIdle /\ BinomIdle
    /\ SearchIdle /\ BezierIdle /\ SmoothIdle

SpecExpand == InitExpand /\ [][ExpandNext]_vars

\* runs of compute_coords on every bounded string
InitInterp == InterpInit /\ ExpandIdle /\ ObjectIdle /\ RuleIdle /\ BinomIdle
    /\ SearchIdle /\ BezierIdle /\ SmoothIdle

SpecInterp == InitInterp /\ [][InterpNext]_vars

\* an Lsys object under assignments and reads of string, coords, depths, x, y
Init == ObjectInit /\ ExpandIdle /\ InterpIdle /\ RuleIdle /\ BinomIdle
    /\ SearchIdle /\ BezierIdle /\ SmoothIdle

Spec == Init /\ [][ObjectNext]_vars

\* an Lsys object under assignments and reads of vocab and commands
SpecAlphabet == Init /\ [][AlphabetNext]_vars

\* calls of clean_rule on every bounded input
InitRule == RuleInit /\ ExpandIdle /\ InterpIdle /\ ObjectIdle /\ BinomIdle
    /\ SearchIdle /\ BezierIdle /\ SmoothIdle

SpecRule == InitRule /\ [][RuleNext]_vars

\* calls of binomial one after the other
InitBinom == BinomInit /\ ExpandIdle /\ InterpIdle /\ ObjectIdle /\ RuleIdle
    /\ SearchIdle /\ BezierIdle /\ SmoothIdle

SpecBinom == InitBinom /\ [][BinomNext]_vars

\* calls of find_circular_weight with every evaluation free to give any
\* deviations
InitSearch == SearchInit /\ ExpandIdle /\ InterpIdle /\ ObjectIdle /\ RuleIdle
    /\ BinomIdle /\ BezierIdle /\ SmoothIdle

SpecSearch == InitSearch /\ [][SearchNext]_vars

\* the same calls, run to their end: the interpreter does not stop halfway
SpecSearchRun == InitSearch /\ [][SearchNext]_vars /\ WF_vars(SearchNext)

\* calls of bezier on every bounded array of control points
InitBezier == BezierInit /\ ExpandIdle /\ InterpIdle /\ ObjectIdle /\ RuleIdle
    /\ BinomIdle /\ SearchIdle /\ SmoothIdle

SpecBezier == InitBezier /\ [][BezierNext]_vars

\* calls of bezier_xy on every bounded sequence of points
InitSmooth == SmoothInit /\ ExpandIdle /\ InterpIdle /\ ObjectIdle /\ RuleIdle
    /\ BinomIdle /\ SearchIdle /\ BezierIdle

SpecSmooth == InitSmooth /\ [][SmoothNext]_vars

(***************************************************************************)
(* Properties of expand.                                                   *)
(***************************************************************************)
\* the parallel substitution of the L-system, written character by character
RECURSIVE SubstOnce(_, _)
SubstOnce(s, rule) ==
    IF s = << >> THEN << >>
    ELSE (IF << Head(s) >> \in DOMAIN rule THEN rule[<< Head(s) >>]
          ELSE << Head(s) >>) \o SubstOnce(Tail(s), rule)

RECURSIVE SubstTimes(_, _, _)
SubstTimes(s, rule, d) ==
    IF d = 0 THEN s ELSE SubstTimes(SubstOnce(s, rule), rule, d - 1)

\* neither the axiom nor a key or a value of the rule set holds the barrier
NoBarrier(args) ==
    /\ args.bar \notin Chars(args.axiom)
    /\ \A key \in DOMAIN args.rule :
          args.bar \notin Chars(key) \union Chars(args.rule[key])

\* C3: without a barrier symbol in the axiom and the rules, what expand
\* returns at depth d is the axiom after d parallel substitutions (the axiom
\* itself at d = 0)
C3_ExpandIsParallelSubstitution ==
    (e_pc = "returned" /\ NoBarrier(e_args))
        => e_ret = SubstTimes(e_args.axiom, e_args.rule, e_args.depth)

C3_Witness ==
    /\ e_pc = "returned"
    /\ NoBarrier(e_args)
    /\ e_args.depth >= 2
    /\ Len(e_ret) > Len(e_args.axiom) + 1
    /\ \E k \in 1..Len(e_args.axiom) : << e_args.axiom[k] >> \notin DOMAIN e_args.rule

\* the digits that stand immediately before position p of s
DigitRunBefore(s, p) ==
    LET start == CHOOSE j \in 1..p :
                    /\ \A m \in j..(p - 1) : IsDigit(s[m])
                    /\ j > 1 => ~IsDigit(s[j - 1])
    IN SubSeq(s, start, p - 1)

\* C4: in the string expand returns, the digits immediately before every
\* barrier are the decimal representation of the iteration that wrote it
C4_BarrierTagIsIteration ==
    e_pc = "returned"
        => \A p \in 1..Len(e_ret) :
              e_ret[p] = e_args.bar
                  => DigitRunBefore(e_ret, p) = Str(e_prov[p])

\* C5: with the memory check on, expand raises or returns the complete
\* expansion, which is no longer than the ceiling
C5_ReturnWithinCeiling ==
    (e_pc = "returned" /\ e_args.memory_check)
        => /\ Len(e_ret) <= MAX_STRING_SIZE
           /\ e_ret = expand(e_args.axiom, e_args.rule, e_args.depth,
                             e_args.bar, FALSE).string

\* C6: the depth a MemoryError carries is one expand reaches without raising
C6_ReportedDepthIsReachable ==
    e_pc = "raised"
        => ~expand(e_args.axiom, e_args.rule, e_i, e_args.bar,
                   e_args.memory_check).raised

(***************************************************************************)
(* Properties of compute_coords.                                           *)
(***************************************************************************)
\* the characters of the string consumed so far
Consumed == SubSeq(r_string, 1, r_k)

\* how often c occurs in s
Count(c, s) == Cardinality({ k \in 1..Len(s) : s[k] = c })

\* a forward, barrier or goto character, or "]"
Emits(c, cfg) ==
    c \in Chars(cfg.forward \o cfg.bar \o cfg.goto) \union { "]" }

\* for each emitting character of s, in order: is its entry a pen lift
EntryKinds(s, cfg) ==
    LET Test(c) == Emits(c, cfg)
        em == SelectSeq(s, Test)
    IN [k \in 1..Len(em) |-> (<< em[k] >> = cfg.goto \/ em[k] = "]")]

\* C7: after any prefix of the string the segments and the depth labels are
\* equally many, one per forward, barrier, goto or "]" character consumed and
\* none for another character, in the order of the string
C7_OneEntryPerCommand ==
    r_pc \in { "loop", "raised", "returned" }
        => /\ Len(r_st.x_y) = Len(r_st.depths)
           /\ [k \in 1..Len(r_st.x_y) |-> r_st.x_y[k].nan]
                 = EntryKinds(Consumed, r_cfg)

C7_Witness ==
    /\ r_pc = "returned"
    /\ r_string = << "|", "+", "G" >>
    /\ Len(r_st.x_y) = 2
    /\ Len(r_st.depths) = 2

\* some prefix of s closes more brackets than it has opened
Underflows(s) ==
    \E k \in 1..Len(s) :
        Count("]", SubSeq(s, 1, k)) > Count("[", SubSeq(s, 1, k))

\* C8: a run is aborted exactly at the first "]" met on an empty save-stack
\* and then returns nothing; a string that never does so, open brackets left
\* on the stack or not, is interpreted to its end and returned
C8_UnderflowAbortsOpenStackDoesNot ==
    /\ r_pc = "raised"
          => /\ r_string[r_k + 1] = "]"
             /\ r_st.stack = << >>
             /\ ~Underflows(Consumed)
    /\ r_pc = "returned" => (r_k = Len(r_string) /\ ~Underflows(r_string))
    /\ r_pc = "loop"
          => /\ ~Underflows(Consumed)
             /\ Len(r_st.stack) = Count("[", Consumed) - Count("]", Consumed)

C8_Witness ==
    /\ r_pc = "raised"
    /\ r_string = << "[", "]", "]" >>
    /\ r_k = 2
    /\ Len(r_st.x_y) = 1

\* a run that returned with saved states left on the stack
C8_OpenStackReturned ==
    /\ r_pc = "returned"
    /\ Len(r_st.stack) = 2
    /\ Len(r_st.x_y) = 1

\* not a digit, a command, a bracket or an ignored symbol of the object
Unrecognized(c, cfg) ==
    /\ ~IsDigit(c)
    /\ c \notin Chars(cfg.forward \o cfg.bar \o cfg.goto \o cfg.right \o cfg.left)
    /\ c \notin { "[", "]" }
    /\ c \notin Chars(cfg.ignore)

\* C10: in one run every distinct unrecognized character is warned of once,
\* however often it occurs, and it is in the ignore set from its first
\* occurrence on; no other character is warned of
C10_OneWarningPerSymbol ==
    r_pc \in { "loop", "raised", "returned" }
        => \A c \in InterpAlphabet :
              IF Unrecognized(c, r_cfg) /\ c \in Chars(Consumed)
              THEN Count(c, r_st.warnings) = 1 /\ Count(c, r_st.ignore) = 1
              ELSE Count(c, r_st.warnings) = 0
                      /\ Count(c, r_st.ignore) = Count(c, r_cfg.ignore)

C10_Witness ==
    /\ r_pc = "returned"
    /\ r_cfg = DefaultConfig
    /\ r_string = << "X", "Y", "X" >>
    /\ r_st.warnings = << "X", "Y" >>

\* a forward, barrier, goto or turn symbol or a bracket occurs in s
CommandSeen(s, cfg) ==
    \E k \in 1..Len(s) :
        s[k] \in Chars(cfg.forward \o cfg.bar \o cfg.goto \o cfg.right \o cfg.left)
                    \union { "[", "]" }

\* C11, as stated: a character is warned of only once a recognized command
\* has been processed earlier in the run, and `found` tells whether one has
C11_WarningOnlyAfterCommand ==
    [][r_k' = r_k + 1
          => /\ r_st'.warnings # r_st.warnings => CommandSeen(Consumed, r_cfg)
             /\ r_st'.found = CommandSeen(SubSeq(r_string, 1, r_k'), r_cfg)]_vars

\* C11, amended: an unrecognized character is warned of and joins the ignore
\* string at its first occurrence in the run, whether or not a command was
\* processed before it, and no other character changes either; `found` is
\* clear again after every character, set only while a move command is
\* being processed
C11_WarningAtFirstSight ==
    [][r_k' = r_k + 1
          => /\ IF /\ Unrecognized(r_string[r_k'], r_cfg)
                   /\ r_string[r_k'] \notin Chars(Consumed)
                THEN /\ r_st'.warnings = Append(r_st.warnings, r_string[r_k'])
                     /\ r_st'.ignore = Append(r_st.ignore, r_string[r_k'])
                ELSE /\ r_st'.warnings = r_st.warnings
                     /\ r_st'.ignore = r_st.ignore
             /\ ~r_st'.found]_vars

\* X was warned of as the first character, before any command, and its
\* occurrence after the forward command added nothing
C11_Witness ==
    /\ r_pc = "returned"
    /\ r_cfg = DefaultConfig
    /\ r_string = << "X", "F", "X" >>
    /\ r_st.warnings = << "X" >>
    /\ Len(r_st.x_y) = 1

\* s without the characters of the object's ignore string
WithoutIgnored(s, cfg) ==
    LET Kept(c) == c \notin Chars(cfg.ignore)
    IN SelectSeq(s, Kept)

\* C12: a string and the string left when every ignored character is deleted
\* from it are interpreted to the same segments and the same depth labels
C12_IgnoredIsNoOp ==
    r_pc = "returned"
        => /\ Interpret(WithoutIgnored(r_string, r_cfg), r_cfg).x_y = r_st.x_y
           /\ Interpret(WithoutIgnored(r_string, r_cfg), r_cfg).depths
                 = r_st.depths

\* s is made of forward symbols, turn symbols and digits only
ForwardsAndTurns(s, cfg) ==
    \A k \in 1..Len(s) :
        IsDigit(s[k]) \/ s[k] \in Chars(cfg.forward \o cfg.right \o cfg.left)

\* the count of a turn: the number written by the digits before it, 1 when
\* there are none (digits = None) and, with zeroIsOne, when they amount to 0
TurnCount(digits, zeroIsOne) ==
    IF digits = None \/ (zeroIsOne /\ digits[1] = 0) THEN 1 ELSE digits[1]

\* the heading at each forward symbol of s from position k on, a being the
\* heading and digits the number written by the digits just before position
\* k: a turn adds da times its count for left and subtracts it for right
RECURSIVE HeadingsFrom(_, _, _, _, _, _)
HeadingsFrom(s, k, digits, a, cfg, zeroIsOne) ==
    IF k > Len(s) THEN << >>
    ELSE IF IsDigit(s[k])
    THEN HeadingsFrom(s, k + 1,
                      Some((IF digits = None THEN 0 ELSE digits[1]) * 10
                               + DigitVal(s[k])),
                      a, cfg, zeroIsOne)
    ELSE IF << s[k] >> = cfg.right
    THEN HeadingsFrom(s, k + 1, None,
                      a - cfg.da * TurnCount(digits, zeroIsOne), cfg, zeroIsOne)
    ELSE IF << s[k] >> = cfg.left
    THEN HeadingsFrom(s, k + 1, None,
                      a + cfg.da * TurnCount(digits, zeroIsOne), cfg, zeroIsOne)
    ELSE << a >> \o HeadingsFrom(s, k + 1, None, a, cfg, zeroIsOne)

\* one drawn segment per heading, of the given length, each starting where
\* the one before it ends and the first at the origin
DrawnAlong(x_y, headings, length) ==
    /\ Len(x_y) = Len(headings)
    /\ \A j \in 1..Len(x_y) :
          /\ ~x_y[j].nan
          /\ x_y[j].p = IF j = 1 THEN << 0, 0 >> ELSE x_y[j - 1].q
          /\ x_y[j].q = << x_y[j].p[1] + length * CosDeg(headings[j]),
                           x_y[j].p[2] + length * SinDeg(headings[j]) >>

\* C13, as stated: over forward and turn symbols there is one drawn segment
\* per forward symbol and no pen lift, the first from the origin to
\* step * (cos a0, sin a0), each later one starting where the one before it
\* ends, turned by da times the turn count between them
C13_ForwardAndTurnSegments ==
    (r_pc \in { "loop", "returned" } /\ ForwardsAndTurns(Consumed, r_cfg))
        => /\ DrawnAlong(r_st.x_y,
                         HeadingsFrom(Consumed, 1, None, r_cfg.a0, r_cfg,
                                      FALSE),
                         r_cfg.step)
           /\ r_st.x_y # << >> =>
                 r_st.x_y[1].q = << r_cfg.step * CosDeg(r_cfg.a0),
                                    r_cfg.step * SinDeg(r_cfg.a0) >>

\* C13, amended: over forward and turn symbols there is one drawn segment
\* per forward symbol and no pen lift, each of length step * ds^depth; the
\* first starts at the origin with the heading a0 changed by the turns that
\* precede it, each later one starts where the one before it ends, turned by
\* da times the turn count between them, the count of a turn being 1 when
\* no digits precede it or they amount to 0
C13_ForwardAndTurnSegmentsScaled ==
    (r_pc \in { "loop", "returned" } /\ ForwardsAndTurns(Consumed, r_cfg))
        => DrawnAlong(r_st.x_y,
                      HeadingsFrom(Consumed, 1, None, r_cfg.a0, r_cfg,
                                   TRUE),
                      r_cfg.step * Pow(r_cfg.ds, r_cfg.depth))

\* two forward symbols with a turn between them, of length 4 = 1 * 2^2:
\* east from the origin, then south from where the first ended
C13_Witness ==
    /\ r_pc = "returned"
    /\ r_cfg.ds = 2
    /\ r_string = << "F", "+", "F" >>
    /\ r_st.x_y = << Segment(0, 0, 4, 0), Segment(4, 0, 4, -4) >>

\* the number written by the digits that end s, 0 when s ends with none
RECURSIVE DigitSuffix(_)
DigitSuffix(s) ==
    IF s = << >> \/ ~IsDigit(s[Len(s)]) THEN 0
    ELSE DigitSuffix(SubSeq(s, 1, Len(s) - 1)) * 10 + DigitVal(s[Len(s)])

\* the effective depth of the move command that follows the characters s
EffectiveDepth(s, c, cfg) ==
    IF << c >> = cfg.bar THEN DigitSuffix(s) ELSE cfg.depth

\* C14: a move command is labelled with its effective depth, the number
\* written just before a barrier symbol and the global depth for a forward
\* or goto symbol, it advances the turtle by step * ds^(that depth) along the
\* heading, and it leaves no pending number
C14_EffectiveDepthOfMove ==
    [][(/\ r_k' = r_k + 1
        /\ r_string[r_k'] \in Chars(r_cfg.forward \o r_cfg.bar \o r_cfg.goto))
          => /\ r_st'.depths
                   = Append(r_st.depths,
                            EffectiveDepth(Consumed, r_string[r_k'], r_cfg))
             /\ r_st'.x = r_st.x + CosDeg(r_st.a) * r_cfg.step
                   * Pow(r_cfg.ds, EffectiveDepth(Consumed, r_string[r_k'], r_cfg))
             /\ r_st'.y = r_st.y + SinDeg(r_st.a) * r_cfg.step
                   * Pow(r_cfg.ds, EffectiveDepth(Consumed, r_string[r_k'], r_cfg))
             /\ r_st'.num = 0]_vars

\* a barrier tagged 1 and a forward symbol at global depth 2, with ds = 2:
\* labels 1 and 2, lengths 2 and 4
C14_Witness ==
    /\ r_pc = "returned"
    /\ r_cfg.ds = 2
    /\ r_cfg.depth = 2
    /\ r_string = << "1", "|", "F" >>
    /\ r_st.depths = << 1, 2 >>
    /\ r_st.x_y = << Segment(0, 0, 2, 0), Segment(2, 0, 6, 0) >>

\* the position of the "[" that the "]" just after s[1..k] closes, n being
\* the number of "]" met on the way back that are still to be matched
RECURSIVE OpenOf(_, _, _)
OpenOf(s, k, n) ==
    IF k = 0 THEN 0
    ELSE IF s[k] = "[" THEN (IF n = 0 THEN k ELSE OpenOf(s, k - 1, n - 1))
    ELSE IF s[k] = "]" THEN OpenOf(s, k - 1, n + 1)
    ELSE OpenOf(s, k - 1, n)

\* the turtle when the "[" matching the "]" at position k was processed
AtMatchingOpen(s, k, cfg) == Interpret(SubSeq(s, 1, OpenOf(s, k - 1, 0)), cfg)

\* the effective depth of the last move command of s, the global depth
\* when s has none
RECURSIVE LastMoveDepth(_, _)
LastMoveDepth(s, cfg) ==
    IF s = << >> THEN cfg.depth
    ELSE IF s[Len(s)] \in Chars(cfg.forward \o cfg.bar \o cfg.goto)
    THEN EffectiveDepth(SubSeq(s, 1, Len(s) - 1), s[Len(s)], cfg)
    ELSE LastMoveDepth(SubSeq(s, 1, Len(s) - 1), cfg)

\* C15: a "]" puts position and heading back to what they were when the
\* matching "[" was processed and emits one pen lift labelled with the
\* effective depth of the last move command; a segment drawn right after the
\* "]" starts at the restored position
C15_CloseRestoresMatchingOpen ==
    [][r_k' = r_k + 1
          => /\ r_string[r_k'] = "]"
                  => /\ r_st'.x = AtMatchingOpen(r_string, r_k', r_cfg).x
                     /\ r_st'.y = AtMatchingOpen(r_string, r_k', r_cfg).y
                     /\ r_st'.a = AtMatchingOpen(r_string, r_k', r_cfg).a
                     /\ r_st'.x_y = Append(r_st.x_y, PenLift)
                     /\ r_st'.depths
                           = Append(r_st.depths, LastMoveDepth(Consumed, r_cfg))
             /\ (/\ r_k > 0
                 /\ r_string[r_k] = "]"
                 /\ r_string[r_k'] \in Chars(r_cfg.forward \o r_cfg.bar))
                  => r_st'.x_y[Len(r_st'.x_y)].p
                        = << AtMatchingOpen(r_string, r_k, r_cfg).x,
                             AtMatchingOpen(r_string, r_k, r_cfg).y >>]_vars

\* two nested pairs: the inner "]" went back to (0, 1), the outer one to
\* (0, 0), where the last segment starts
C15_Witness ==
    /\ r_pc = "returned"
    /\ r_cfg = DefaultConfig
    /\ r_string = << "[", "F", "[", "+", "F", "]", "F", "]", "F" >>
    /\ Len(r_st.x_y) = 6
    /\ r_st.x_y[4] = Segment(0, 1, 0, 2)
    /\ r_st.x_y[5] = PenLift
    /\ r_st.x_y[6] = Segment(0, 0, 0, 1)

\* the length of a step made at the global depth
GlobalStep(cfg) == cfg.step * Pow(cfg.ds, cfg.depth)

\* where the turtle stands one step at the global depth after the first k
\* characters of s
OneStepAfter(s, k, cfg) ==
    << Interpret(SubSeq(s, 1, k), cfg).x
          + CosDeg(Interpret(SubSeq(s, 1, k), cfg).a) * GlobalStep(cfg),
       Interpret(SubSeq(s, 1, k), cfg).y
          + SinDeg(Interpret(SubSeq(s, 1, k), cfg).a) * GlobalStep(cfg) >>

\* C16: a goto symbol emits a pen lift labelled with the global depth, not a
\* drawn segment, and moves the turtle one step along its heading; a segment
\* drawn right after it starts one step beyond where the goto was met
C16_GotoLiftsPenAndAdvances ==
    [][r_k' = r_k + 1
          => /\ << r_string[r_k'] >> = r_cfg.goto
                  => /\ r_st'.x_y = Append(r_st.x_y, PenLift)
                     /\ r_st'.depths = Append(r_st.depths, r_cfg.depth)
                     /\ << r_st'.x, r_st'.y >>
                           = << r_st.x + CosDeg(r_st.a) * GlobalStep(r_cfg),
                                r_st.y + SinDeg(r_st.a) * GlobalStep(r_cfg) >>
                     /\ r_st'.a = r_st.a
             /\ (/\ r_k > 0
                 /\ << r_string[r_k] >> = r_cfg.goto
                 /\ r_string[r_k'] \in Chars(r_cfg.forward \o r_cfg.bar))
                  => /\ ~r_st'.x_y[Len(r_st'.x_y)].nan
                     /\ r_st'.x_y[Len(r_st'.x_y)].p
                           = OneStepAfter(r_string, r_k - 1, r_cfg)]_vars

\* forward, goto, forward with steps of length 4: the stretch from 4 to 8 is
\* a pen lift and the second segment starts at 8
C16_Witness ==
    /\ r_pc = "returned"
    /\ r_cfg.ds = 2
    /\ r_string = << "F", "G", "F" >>
    /\ r_st.x_y = << Segment(0, 0, 4, 0), PenLift, Segment(8, 0, 12, 0) >>
    /\ r_st.depths = << 2, 2, 2 >>

(***************************************************************************)
(* Properties of the derived attributes of an Lsys object.                 *)
(***************************************************************************)
\* the expansion of the object's current axiom, rules, depth and barrier
CurrentExpansion ==
    expand(_axiom, _clean_rule, _depth, _bar[1], FALSE).string

\* C1: whatever was assigned before, a read of string returns the expansion
\* of the attribute values current at the read
C1_StringIsCurrentExpansion ==
    (ret.op = "string" /\ ret.error = "") => ret.val = CurrentExpansion

\* C2: a read of vocab returns the symbols of the current axiom, rules and
\* control symbols, a read of commands the current command symbols
C2_AlphabetIsCurrent ==
    /\ (ret.op = "vocab" /\ ret.error = "") => ret.val = BuildVocab
    /\ (ret.op = "commands" /\ ret.error = "") => ret.val = BuildCommands

\* a read of a derived attribute failed over the ceiling or on an underflow
FailedRead(r) ==
    /\ r.op \in { "string", "coords", "depths", "x", "y" }
    /\ r.error \in { "MemoryError", "IndexError: pop" }

\* C9, as stated: a read that fails over the memory ceiling or on a stack
\* underflow leaves the cached coords, depths, x and y as they were and the
\* stale flag of what it read set
C9_FailedReadKeepsCache ==
    [][FailedRead(ret')
          => /\ _coords' = _coords /\ _depths' = _depths
             /\ _x' = _x /\ _y' = _y
             /\ IF ret'.op = "string" THEN _string_stale' ELSE _coord_stale']_vars

\* C9, amended: a read that fails over the memory ceiling or on a stack
\* underflow leaves the cached coords, depths, x and y as they were; a failed
\* read of coords, depths, x or y leaves _coord_stale set; a failed read of
\* string leaves the cached string and _string_stale as they were, and the
\* test of line 287 (no string, an empty string or the flag set) still asks
\* for a recomputation at the next read
C9_FailedReadLeavesRecomputePending ==
    [][FailedRead(ret')
          => /\ _coords' = _coords /\ _depths' = _depths
             /\ _x' = _x /\ _y' = _y
             /\ IF ret'.op = "string"
                THEN /\ _string' = _string
                     /\ _string_stale' = _string_stale
                     /\ \/ _string' = None
                        \/ _string'[1] = << >>
                        \/ _string_stale'
                ELSE _coord_stale']_vars

\* a read of coords, depths, x or y has failed on an object that holds the
\* coords of an earlier read
C9_Witness ==
    /\ FailedRead(ret)
    /\ ret.op # "string"
    /\ _coords # None
    /\ _coord_stale

(***************************************************************************)
(* Properties of clean_rule.                                               *)
(***************************************************************************)
\* the call of clean_rule has returned a mapping
CleanReturned == c_pc \in { "returned", "again" }

\* C17: every mapping that clean_rule returns has only keys of one character
\* and no value holding the reserved ".": an input that would give either is
\* rejected by the call itself.
C17_RuleHasSingleKeysAndNoDot ==
    CleanReturned =>
        \A k \in DOMAIN c_ret.rule :
            /\ Len(k) = 1
            /\ "." \notin Chars(c_ret.rule[k])

\* the call of clean_rule has ended, one way or the other
CleanEnded == c_pc \in { "raised", "returned", "again" }

HasSeparator(text) == \E j \in 1..Len(Seps) : Contains(text, Seps[j])

\* the rules of a text: what stands between its ";" and ","
RulesOf(text) == Split(Replace(text, ";", << "," >>), ",")

\* the text has no separator at all, or one of its rules has none
LacksSeparator(text) ==
    \/ ~HasSeparator(text)
    \/ \E i \in 1..Len(RulesOf(text)) : ~HasSeparator(RulesOf(text)[i])

WithoutSpaces(text) == SelectSeq(text, LAMBDA c : c # " ")

CleanRaisedValueError ==
    /\ c_pc = "raised"
    /\ c_ret.raised
    /\ c_ret.error = "ValueError"
    /\ c_ret.rule = << >>

\* C18 as stated: clean_rule raises ValueError and returns no mapping when
\* the string given contains none of the separators, when one rule of a
\* string of several rules has no separator although another has one, and
\* when the argument is neither a mapping nor a string.
C18_RaisesOnBadRule ==
    /\ CleanEnded
    /\ \/ c_rule.type = "str" /\ LacksSeparator(c_rule.text)
       \/ c_rule.type \notin { "dict", "str" }
    => CleanRaisedValueError

\* C18, amended: the same, the separators being looked for in the string
\* with its spaces removed.
C18_RaisesOnBadSqueezedRule ==
    /\ CleanEnded
    /\ \/ c_rule.type = "str" /\ LacksSeparator(WithoutSpaces(c_rule.text))
       \/ c_rule.type \notin { "dict", "str" }
    => CleanRaisedValueError

\* "x=F;y-F": the second rule has no separator, the call raised
C18_Witness ==
    /\ c_rule = StrRule(<< "x", "=", "F", ";", "y", "-", "F" >>)
    /\ CleanRaisedValueError

\* no white space at either end
Stripped(word) == Strip(word) = word

\* C19: a mapping that clean_rule returns has upper-case keys and values
\* without surrounding white space, and clean_rule applied to that mapping
\* returns the same mapping.
C19_CleanIsNormalAndIdempotent ==
    /\ CleanReturned =>
           \A k \in DOMAIN c_ret.rule :
               /\ Upper(k) = k /\ Stripped(k)
               /\ Upper(c_ret.rule[k]) = c_ret.rule[k]
               /\ Stripped(c_ret.rule[k])
    /\ c_pc = "again" => ~c_again.raised /\ c_again.rule = c_ret.rule

\* "x: F-x; y --> x.y", with two of the separators and a ";": cleaned, and
\* cleaned again to the same
C19_Witness ==
    /\ c_pc = "again"
    /\ c_rule.type = "str"
    /\ Len(c_rule.text) > MaxRuleLen
    /\ c_ret.rule = (<< "X" >> :> << "F", "-", "X" >>)
                        @@ (<< "Y" >> :> << "X", ".", "Y" >>)
    /\ c_again.rule = c_ret.rule

(***************************************************************************)
(* Properties of binomial.                                                 *)
(***************************************************************************)
RECURSIVE Factorial(_)
Factorial(n) == IF n = 0 THEN 1 ELSE n * Factorial(n - 1)

\* C20: for 0 <= k <= n, the rows after n = 6 included, binomial(n, k)
\* returns n! / (k! (n-k)!), whatever calls were made before.
C20_BinomialIsPascal ==
    b_pc = "returned" =>
        b_ret = Some(Factorial(b_n) \div (Factorial(b_k) * Factorial(b_n - b_k)))

\* binomial(9, 4) = 126 as a second call, rows 7 to 9 built by the loop
C20_Witness ==
    /\ b_pc = "returned"
    /\ b_done = 1
    /\ b_n = 9
    /\ b_k = 4
    /\ Len(b_tri) = 10
    /\ b_ret = Some(126)

(***************************************************************************)
(* Properties of the rule setter.                                          *)
(***************************************************************************)
\* C30: an assignment to rule that fails with an error leaves the object as
\* it was: rule reads as before the assignment, and the stored rule still
\* is the one the compiled rule set was made from.
C30_FailedRuleAssignmentChangesNothing ==
    [][(ret'.op = "set" /\ ret'.error = "ValueError")
          => /\ _rule' = _rule
             /\ _clean_rule' = _clean_rule
             /\ ~clean_rule(_rule').raised
             /\ clean_rule(_rule').rule = _clean_rule']_vars

(***************************************************************************)
(* Properties of x, y and depths against coords.                           *)
(***************************************************************************)
\* the component `axis` of both ends of every segment, in order
Component(coords, axis) ==
    [j \in 1..(2 * Len(coords)) |->
        [nan |-> coords[(j + 1) \div 2].nan,
         v |-> IF j % 2 = 1 THEN coords[(j + 1) \div 2].p[axis]
               ELSE coords[(j + 1) \div 2].q[axis]]]

\* C29: whatever assignments and reads came before, x and y return the
\* flattened components of the coords value that a read of coords returns at
\* that moment, depths returns one label per segment of it, and the x and y
\* kept by the object are those of the coords it keeps.
C29_XYDepthsAreOfCurrentCoords ==
    /\ ret.error = "" /\ ret.op \in { "x", "y", "depths" } =>
          /\ ~CoordsGet(Cache).raised
          /\ ret.op = "x" => ret.val = Component(CoordsGet(Cache).val, 1)
          /\ ret.op = "y" => ret.val = Component(CoordsGet(Cache).val, 2)
          /\ ret.op = "depths" => Len(ret.val) = Len(CoordsGet(Cache).val)
    /\ _x # None =>
          /\ _coords # None /\ _y # None
          /\ _x[1] = Component(_coords[1], 1)
          /\ _y[1] = Component(_coords[1], 2)

\* x read as the last of MaxCalls accesses, of an object whose axiom "F|"
\* gives at least two segments
C29_Witness ==
    /\ ret.op = "x" /\ ret.error = ""
    /\ calls = MaxCalls
    /\ _axiom = << "F", "|" >>
    /\ Len(ret.val) >= 4
    /\ _x = Some(ret.val)

(***************************************************************************)
(* Properties of bezier.                                                   *)
(***************************************************************************)
\* the mirror image of a point about the vertical axis
Mirror(p) == << -p[1], p[2] >>

\* four control points, the last two the mirror images of the first two
MirrorSymmetric(points) ==
    /\ Len(points) = 4
    /\ points[4] = Mirror(points[1])
    /\ points[3] = Mirror(points[2])

\* C21: for four mirror-symmetric control points the curve that bezier
\* returns is symmetric, the sample at t being the mirror image of the
\* sample at 1 - t; and the Bernstein weight poly(n, k) at t equals
\* poly(n, n - k) at 1 - t.
C21_MirroredPointsGiveMirroredCurve ==
    z_pc = "returned" =>
        /\ MirrorSymmetric(z_points) =>
               \A j \in 1..(z_segs + 1) :
                   z_curve[j] = Mirror(z_curve[z_segs + 2 - j])
        /\ \A k \in 0..(Len(z_points) - 1) : \A j \in 0..z_segs :
               Poly(Len(z_points) - 1, k, j, z_segs)
                   = Poly(Len(z_points) - 1, Len(z_points) - 1 - k,
                          z_segs - j, z_segs)

\* the arch over (-1,0), (-1,1), (1,1), (1,0) in three segments: its second
\* and third samples, off the axis, mirror each other
C21_Witness ==
    /\ z_pc = "returned"
    /\ z_points = << << -1, 0 >>, << -1, 1 >>, << 1, 1 >>, << 1, 0 >> >>
    /\ z_segs = 3
    /\ z_curve[2][1] < 0
    /\ z_curve[3] = Mirror(z_curve[2])
    /\ z_curve[1] = << -27, 0 >>

(***************************************************************************)
(* Properties of find_circular_weight.                                     *)
(***************************************************************************)
\* C22: the call raises ValueError before any evaluation when the angle is
\* not strictly between 0 and 180 or the guess not strictly between 0 and 1,
\* the end values included, and never raises it otherwise.
C22_ArgumentsOutsideOpenIntervalsRaise ==
    w_pc \notin { "idle", "called" } =>
        IF /\ 0 < w_angle /\ w_angle < 180
           /\ 0 < w_guess /\ w_guess < WeightOne
        THEN w_ret.error # "ValueError"
        ELSE /\ w_pc = "raised"
             /\ w_ret.error = "ValueError"
             /\ w_evals = 0
             /\ w_error_np = << >>

\* the angle 180 with a guess inside (0, 1): rejected
C22_Witness ==
    /\ w_pc = "raised"
    /\ w_angle = 180
    /\ 0 < w_guess /\ w_guess < WeightOne
    /\ w_ret.error = "ValueError"

\* the error lies strictly inside (-tol, tol)
Inside(error, tol) == -tol < error /\ error < tol

SearchEnded == w_pc \in { "returned", "raised" }

\* C23: for max_iters >= 1 the call ends after at most max_iters
\* evaluations, at the first one whose error lies strictly inside (-tol,
\* tol); it returns the guess evaluated last with that guess's error, no
\* update of the bounds coming after the last evaluation; the first
\* evaluation is of the initial guess, which max_iters = 1 thus returns.
C23_SearchEndsAtFirstHitOrBudget ==
    /\ [](w_max_iters >= 1 =>
            /\ w_evals <= w_max_iters
            /\ (w_pc = "loop" /\ w_evals > 0) => ~Inside(w_error, w_tol)
            /\ w_pc = "returned" =>
                  /\ w_evals >= 1
                  /\ Inside(w_error, w_tol) \/ w_evals = w_max_iters
                  /\ w_ret.error = ""
                  /\ w_ret.guess = w_guess
                  /\ w_ret.err = w_error
                  /\ w_ret.error_np = w_error_np
                  /\ w_b <= w_guess /\ w_guess <= w_a
                  /\ w_evals > 1 => 2 * w_guess = w_a + w_b)
    /\ [][w_max_iters >= 1 =>
            /\ w_evals' \in { w_evals, w_evals + 1 }
            /\ w_evals' <= 1 => w_guess' = w_guess
            /\ (w_pc = "loop" /\ w_evals' = w_evals) =>
                  w_guess' = w_guess /\ w_a' = w_a /\ w_b' = w_b
            /\ (w_evals' # w_evals /\ Inside(w_error', w_tol)) =>
                  w_pc' = "returned"]_vars
    /\ <>SearchEnded

\* three evaluations asked for and made, none inside the tolerance: the
\* third guess is returned with i = 2
C23_Witness ==
    /\ w_pc = "returned"
    /\ w_max_iters = 3
    /\ w_evals = 3
    /\ ~Inside(w_error, w_tol)
    /\ w_ret.guess = w_guess
    /\ w_ret.i = 2
    /\ 2 * w_guess = w_a + w_b

\* an evaluation other than the first is being made: the generator is
\* resumed and the bounds are updated
Updating == w_pc = "loop" /\ w_evals >= 1 /\ w_evals' = w_evals + 1

\* C26 as stated: after a positive error the lower bound (b) moves up to
\* the guess and the upper bound (a) stays; after any other error the upper
\* bound moves down to the guess and the lower bound stays; the next guess
\* is the midpoint of the two bounds.
C26_PositiveErrorRaisesLowerBound ==
    [][Updating =>
          /\ IF w_error > 0
             THEN w_b' = w_guess /\ w_a' = w_a
             ELSE w_a' = w_guess /\ w_b' = w_b
          /\ 2 * w_guess' = w_a' + w_b']_vars

\* C26, amended: after a positive error the upper bound (a) moves down to
\* the guess and the lower bound (b) stays; after any other error the lower
\* bound moves up to the guess and the upper bound stays; the next guess is
\* the midpoint of the two bounds.
C26_PositiveErrorLowersUpperBound ==
    [][Updating =>
          /\ IF w_error > 0
             THEN w_a' = w_guess /\ w_b' = w_b
             ELSE w_b' = w_guess /\ w_a' = w_a
          /\ 2 * w_guess' = w_a' + w_b']_vars

\* the first error was positive: the second guess is evaluated halfway
\* between 0 and the first guess, now the upper bound
C26_Witness ==
    /\ w_evals = 2
    /\ w_b = 0
    /\ 0 < w_a /\ w_a < WeightOne
    /\ 2 * w_guess = w_a

\* an evaluation has been made and its deviations are at hand
Evaluated == w_evals >= 1 /\ w_error_np # << >>

AbsDeviations == { AbsVal(w_error_np[k]) : k \in DOMAIN w_error_np }

\* C27 as stated: the error of an evaluation is the largest absolute
\* deviation minus the smallest absolute deviation of the samples, for
\* deviations of one sign and of mixed sign alike.
C27_ErrorIsSpreadOfAbsoluteDeviations ==
    Evaluated =>
        w_error = (CHOOSE m \in AbsDeviations : \A d \in AbsDeviations : d <= m)
                  - (CHOOSE m \in AbsDeviations : \A d \in AbsDeviations : d >= m)

\* C27, amended: the error of an evaluation is the absolute value of the
\* largest deviation minus the absolute value of the smallest deviation,
\* the deviations taken with their signs.
C27_ErrorIsAbsOfExtremes ==
    Evaluated =>
        \E hi, lo \in DOMAIN w_error_np :
            /\ \A k \in DOMAIN w_error_np :
                   /\ w_error_np[k] <= w_error_np[hi]
                   /\ w_error_np[k] >= w_error_np[lo]
            /\ w_error = AbsVal(w_error_np[hi]) - AbsVal(w_error_np[lo])

\* deviations of mixed sign, -2 and 1: the error is 1 - 2 = -1
C27_Witness ==
    /\ w_evals = 1
    /\ w_error_np = << -2, 1 >>
    /\ w_error = -1

\* C28: whatever the signs of the errors, 0 <= lower bound <= guess <=
\* upper bound <= 1 at every step of the search; every update moves exactly
\* one bound, inward, to the guess just evaluated; and from the second
\* update on every update halves the width of the bracket.
C28_BracketStaysValidAndHalves ==
    /\ [](w_pc \in { "loop", "returned" } =>
            /\ 0 <= w_b /\ w_b <= w_guess
            /\ w_guess <= w_a /\ w_a <= WeightOne)
    /\ [][Updating =>
            /\ \/ w_a' = w_guess /\ w_a' < w_a /\ w_b' = w_b
               \/ w_b' = w_guess /\ w_b' > w_b /\ w_a' = w_a
            /\ w_evals >= 2 => 2 * (w_a' - w_b') = w_a - w_b]_vars

\* the third evaluation, after one update of each bound: the bracket lies
\* strictly inside (0, 1) with the guess in its middle
C28_Witness ==
    /\ w_evals = 3
    /\ 0 < w_b /\ w_b < w_guess
    /\ w_guess < w_a /\ w_a < WeightOne
    /\ 2 * w_guess = w_a + w_b
    /\ Len(w_error_np) = 2

(***************************************************************************)
(* Properties of bezier_xy.                                                *)
(***************************************************************************)
\* the run of the point at position k: the number of pen-lifts before it
RunOf(xy, k) == Cardinality({ j \in 1..k : xy[j].nan })

\* the positions of the given points that a curve is built from
PointsUnder(curve) ==
    UNION { { curve[m].from[1], curve[m].from[2] } : m \in DOMAIN curve }

\* C24: the polyline is split at its pen-lifts before it is smoothed: every
\* curve of bezier_xy is built from points of one run, never from points on
\* two sides of a pen-lift.
C24_CurvesStayWithinOneRun ==
    \A c \in DOMAIN s_curves :
        \A i, j \in PointsUnder(s_curves[c]) :
            RunOf(s_xy, i) = RunOf(s_xy, j)

====
